---- MODULE Spec2Model ----
\* Saree POS: the in-memory ledger (sarees, sales, cart) of App.jsx, its
\* startup load / legacy migration, its write-through save effect, the bulk
\* import through a FileReader, and the legacy variant of the application
\* (generated product codes, processSale).
\*
\* Text is modelled as sequences of one-character strings, so that
\* toUpperCase / toLowerCase / trim / includes are computed, not assumed.
EXTENDS Integers, Sequences, FiniteSets, TLC

VARIABLES
    variant,        \* "current" (App.jsx) or "legacy" (the older App)
    sarees,         \* useState([]) : the inventory, newest first
    sales,          \* useState([]) : the sales log, newest first
    cart,           \* useState([]) : the cart lines, each holding its saree
    notification,   \* the last toast showNotification has shown
    isDBLoaded,     \* useState(false) : the startup guard flag
    scanMode,       \* useState('SELL')
    showPaymentModal, \* useState(false) : the payment dialog covers the UI
    paymentMethod,  \* useState('UPI')
    clock,          \* what new Date() reads
    loadPc,         \* where loadData() is suspended
    savedSarees,    \* loadData's local
    savedSales,     \* loadData's local
    idb,            \* IndexedDB KeyValueStore: the two keys
    localStorage,   \* the legacy flat storage: the two keys
    reader,         \* the FileReader of a chosen import file, and its closure
    faultsLeft,     \* storage requests the store may still reject
    idbAtStartup,   \* what IndexedDB held when the session started
    activeTab,      \* useState('dashboard')
    isCameraActive, \* useState(false)
    camera,         \* scannerRef, the scanner's session and its decode callback
    showResetModal, \* useState(false) : the reset dialog covers the UI
    resetPc,        \* where a running performFactoryReset waits
    resetConfirmed, \* history: "no", or a reset was confirmed with the PIN in
                    \* "thisSession" or in an "earlierSession"
    worker,         \* the service worker: its state, the caches, its last answer
                    \* and the URLs its fetch handler asked the network for
    devClickCount,  \* useState(0) : clicks on the dashboard title
    resetPassword,  \* useState('') : the PIN field
    passwordError,  \* useState('')
    download        \* the file the last export handed to the browser

vars == <<variant, sarees, sales, cart, notification, isDBLoaded, scanMode,
          showPaymentModal, paymentMethod, clock, loadPc, savedSarees, savedSales, idb, localStorage,
          reader, faultsLeft, idbAtStartup, activeTab, isCameraActive, camera,
          showResetModal, devClickCount, resetPassword, passwordError, download,
          resetPc, resetConfirmed, worker>>

-----------------------------------------------------------------------------
\* Bounds of the model.

\* Longest inventory the model builds.
MaxItems == 2
\* Longest sales log the model builds.
MaxSales == 2
\* Most storage requests (getDBItem, setDBItem) the store rejects in one run.
MaxFaults == 1
\* Latest reading of the clock.
MaxClock == 1

-----------------------------------------------------------------------------
\* Text helpers.

LowerCase == <<"a", "b", "c", "d", "e", "l", "m", "o", "p", "r", "s", "t", "u">>
UpperCase == <<"A", "B", "C", "D", "E", "L", "M", "O", "P", "R", "S", "T", "U">>

UpperChar(ch) ==
    IF \E i \in DOMAIN LowerCase : LowerCase[i] = ch
    THEN UpperCase[CHOOSE i \in DOMAIN LowerCase : LowerCase[i] = ch]
    ELSE ch

LowerChar(ch) ==
    IF \E i \in DOMAIN UpperCase : UpperCase[i] = ch
    THEN LowerCase[CHOOSE i \in DOMAIN UpperCase : UpperCase[i] = ch]
    ELSE ch

\* A code field that keeps the text as typed.
toUpperCase_asTyped(s) == s

toUpperCase(s) == [i \in DOMAIN s |-> UpperChar(s[i])]

toLowerCase(s) == [i \in DOMAIN s |-> LowerChar(s[i])]

RECURSIVE trimStart(_)
trimStart(s) ==
    IF s # <<>> /\ Head(s) = " " THEN trimStart(Tail(s)) ELSE s

RECURSIVE trimEnd(_)
trimEnd(s) ==
    IF s # <<>> /\ s[Len(s)] = " " THEN trimEnd(SubSeq(s, 1, Len(s) - 1)) ELSE s

trim(s) == trimEnd(trimStart(s))

includes(s, sub) ==
    \E i \in 0..(Len(s) - Len(sub)) : SubSeq(s, i + 1, i + Len(sub)) = sub

Digits == <<"0", "1", "2", "3", "4", "5", "6", "7", "8", "9">>

isDigit(ch) == \E i \in DOMAIN Digits : Digits[i] = ch

digitValue(ch) == (CHOOSE i \in DOMAIN Digits : Digits[i] = ch) - 1

\* String(n) of a number that is not negative: its decimal digits.
RECURSIVE String(_)
String(n) ==
    IF n < 10 THEN <<Digits[n + 1]>>
    ELSE String(n \div 10) \o <<Digits[(n % 10) + 1]>>

\* The value of the leading digits of s, given the value of those read so far.
RECURSIVE leadingDigits(_, _)
leadingDigits(s, acc) ==
    IF s # <<>> /\ isDigit(Head(s))
    THEN leadingDigits(Tail(s), 10 * acc + digitValue(Head(s)))
    ELSE acc

NaN == [nan |-> TRUE, val |-> 0]

\* parseFloat of a text without sign, fraction or exponent: blanks are
\* skipped, the leading digits are read, and with no digit the result is NaN.
parseFloat(s) ==
    LET t == trimStart(s) IN
    IF t # <<>> /\ isDigit(Head(t))
    THEN [nan |-> FALSE, val |-> leadingDigits(t, 0)]
    ELSE NaN

\* x || 0 of a parseFloat result: NaN and 0 are falsy.
orZero(x) == IF x.nan THEN 0 ELSE x.val

\* The two status texts the code compares with: 'sold' and 'available'.
SoldText == <<"s", "o", "l", "d">>

AvailableText == <<"a", "v", "a", "i", "l", "a", "b", "l", "e">>

-----------------------------------------------------------------------------
\* Values.

Saree(code, status, mrp, asp60) ==
    [code |-> code, status |-> status, mrp |-> mrp, asp60 |-> asp60]

\* The prices typed into the add form (both fields are required).
FormPrices == [mrp |-> 500, asp60 |-> 400]

\* An item with the add form's prices.
Item(code, status) == Saree(code, status, FormPrices.mrp, FormPrices.asp60)

SaleRecord(code, salePrice, method, saleDate) ==
    [sareeCode |-> code, salePrice |-> salePrice, paymentMethod |-> method,
     saleDate |-> saleDate]

\* A sale at the add form's list price, paid by UPI at time 0.
Sale(code) == SaleRecord(code, FormPrices.mrp, "UPI", 0)

\* { saree, selection: 'MRP', customPrice: saree.mrp || '' }
CartLine(saree) ==
    [saree |-> saree, selection |-> "MRP",
     customPrice |-> IF saree.mrp # 0 THEN String(saree.mrp) ELSE <<>>]

NoNotification == [message |-> "none", type |-> "none"]

Notify(message, type) == [message |-> message, type |-> type]

\* A value of the IndexedDB store: undefined (no value) or a collection.
Undefined == [has |-> FALSE, val |-> <<>>]

Stored(coll) == [has |-> TRUE, val |-> coll]

\* A value of localStorage: null, a JSON text of a collection, or a text
\* that JSON.parse rejects.
Null == [kind |-> "null", val |-> <<>>]

JSONText(coll) == [kind |-> "json", val |-> coll]

Garbage == [kind |-> "garbage", val |-> <<>>]

NoFile ==
    [headers |-> <<>>, hasCode |-> FALSE, hasStatus |-> FALSE, hasMrp |-> FALSE,
     hasAsp |-> FALSE, rows |-> <<>>]

\* The closure of reader.onload holds the sarees of the render that chose the
\* file; onload reads only their codes.
NoReader == [busy |-> FALSE, codes |-> {}, file |-> NoFile]

-----------------------------------------------------------------------------
\* Inputs.

\* Texts typed into the add form's code field (required, so never empty).
FormCodes == {<<"a">>, <<"B">>}

\* Texts typed into the scan field or decoded by the scanner.
ScanTexts == {<<"a">>, <<" ", "B">>}

\* Codes the legacy variant's generator can produce (SAR-<type>-<random>).
GeneratedCodes == {<<"A">>, <<"B">>}

\* A row's cells under the code, status, MRP and ASP60 columns; a cell of a
\* column the file does not have is empty.
Cells(code, status, mrp, asp60) ==
    [code |-> code, status |-> status, mrp |-> mrp, asp60 |-> asp60]

\* A row of a file without price columns.
Row(code, status) == Cells(code, status, <<>>, <<>>)

\* A row with the price cells 500 and 400.
PricedRow(code, status) == Cells(code, status, <<"5", "0", "0">>, <<"4", "0", "0">>)

\* A header cell as the column search sees it.
normalizeHeader(h) == trim(toLowerCase(h))

\* h.includes('product_code') || h === 'product code' || h === 'productcode'
\* || h === 'code'
isCodeHeader(h) ==
    \/ includes(h, <<"p", "r", "o", "d", "u", "c", "t", "_", "c", "o", "d", "e">>)
    \/ h = <<"p", "r", "o", "d", "u", "c", "t", " ", "c", "o", "d", "e">>
    \/ h = <<"p", "r", "o", "d", "u", "c", "t", "c", "o", "d", "e">>
    \/ h = <<"c", "o", "d", "e">>

\* A column search that settles for the first column.
codeIdx_firstColumn(headers) == IF headers = <<>> THEN 0 ELSE 1

\* headers.findIndex(...) for the product code; 0 stands for -1
codeIdx(headers) ==
    LET hits == {i \in DOMAIN headers : isCodeHeader(normalizeHeader(headers[i]))}
    IN  IF hits = {} THEN 0 ELSE CHOOSE i \in hits : \A j \in hits : i <= j

\* headers.findIndex(h => h.includes('status')); 0 stands for -1
statusIdx(headers) ==
    LET hits == {i \in DOMAIN headers :
                    includes(normalizeHeader(headers[i]), <<"s", "t", "a", "t", "u", "s">>)}
    IN  IF hits = {} THEN 0 ELSE CHOOSE i \in hits : \A j \in hits : i <= j

\* headers.findIndex(h => h === 'mrp'); 0 stands for -1
mrpIdx(headers) ==
    LET hits == {i \in DOMAIN headers : normalizeHeader(headers[i]) = <<"m", "r", "p">>}
    IN  IF hits = {} THEN 0 ELSE CHOOSE i \in hits : \A j \in hits : i <= j

\* headers.findIndex(h => h.includes('asp60') || h === 'asp'); 0 stands for -1
aspIdx(headers) ==
    LET hits == {i \in DOMAIN headers :
                    \/ includes(normalizeHeader(headers[i]), <<"a", "s", "p", "6", "0">>)
                    \/ normalizeHeader(headers[i]) = <<"a", "s", "p">>}
    IN  IF hits = {} THEN 0 ELSE CHOOSE i \in hits : \A j \in hits : i <= j

\* A file: its header cells, which of the code, status, MRP and ASP60 columns
\* the column search finds among them, and the rows' cells under those
\* columns.
CSV(headers, rows) ==
    [headers |-> headers, hasCode |-> codeIdx(headers) # 0,
     hasStatus |-> statusIdx(headers) # 0, hasMrp |-> mrpIdx(headers) # 0,
     hasAsp |-> aspIdx(headers) # 0, rows |-> rows]

HeaderMrp == <<"M", "R", "P">>
HeaderAsp60 == <<"A", "S", "P", "6", "0">>
HeaderCode == <<"C", "o", "d", "e">>
HeaderProductCode == <<"P", "r", "o", "d", "u", "c", "t", "_", "C", "o", "d", "e">>
HeaderStatus == <<"S", "t", "a", "t", "u", "s">>
HeaderBarcode == <<"B", "a", "r", "c", "o", "d", "e">>

\* Import files.
Files ==
    { CSV(<<HeaderCode, HeaderMrp, HeaderAsp60>>,
          <<PricedRow(<<"a">>, <<>>), PricedRow(<<"A">>, <<>>)>>),
      CSV(<<HeaderProductCode, HeaderMrp, HeaderAsp60, HeaderStatus>>,
          <<PricedRow(<<"A">>, <<"S", "o", "l", "d">>), PricedRow(<<"B">>, <<>>)>>),
      CSV(<<HeaderStatus, HeaderCode, HeaderMrp, HeaderAsp60>>,
          <<PricedRow(<<"b">>, <<"S", "o", "l", "d", " ", "b">>)>>),
      CSV(<<HeaderBarcode, HeaderStatus>>, <<Row(<<"A">>, <<>>)>>) }

\* What a previous session can have left in IndexedDB.
StoredStates ==
    { [saree_inventory |-> Undefined, saree_sales |-> Undefined],
      [saree_inventory |-> Stored(<<Item(<<"B">>, AvailableText), Item(<<"A">>, SoldText)>>),
       saree_sales |-> Stored(<<Sale(<<"A">>)>>)] }

\* What the pre-IndexedDB version can have left in localStorage.
LegacyStates ==
    { [saree_inventory |-> Null, saree_sales |-> Null],
      [saree_inventory |-> JSONText(<<Item(<<"A">>, SoldText)>>),
       saree_sales |-> JSONText(<<Sale(<<"A">>)>>)],
      [saree_inventory |-> JSONText(<<Item(<<"B">>, AvailableText)>>),
       saree_sales |-> Garbage] }

\* The scanner. ref: scannerRef.current holds a scanner object. state: "off",
\* "starting" (the 100 ms timer of startCameraScanner is pending), "running"
\* or "stopping" (stop() is called and has not settled). A starting or
\* running session carries the handleScanInput its decode callback calls:
\* that of the render in which the camera button was clicked, with that
\* render's sarees, sales, cart and scanMode. The closure's cart holds the
\* line objects of that render; alias[k] is the place the k-th of them has in
\* the current cart (0 when it is no longer there), since
\* updateCartItemPrice writes into the line object itself.
Scanner(ref, state, stock, log, lines, mode) ==
    [ref |-> ref, state |-> state, sarees |-> stock, sales |-> log,
     cart |-> lines, scanMode |-> mode, alias |-> [k \in DOMAIN lines |-> k]]

\* A scanner without session: nothing is captured.
Idle(ref, state) == Scanner(ref, state, <<>>, <<>>, <<>>, "SELL")

-----------------------------------------------------------------------------
\* Array helpers, as the code uses them.

\* sarees.some(s => s.code === code)
someCode(coll, code) == \E i \in DOMAIN coll : coll[i].code = code

\* sarees.findIndex(s => s.code === code); 0 stands for -1
findIndex(coll, code) ==
    IF someCode(coll, code)
    THEN CHOOSE i \in DOMAIN coll :
            /\ coll[i].code = code
            /\ \A j \in 1..(i - 1) : coll[j].code # code
    ELSE 0

\* A cart test that never finds the code.
inCart_never(lines, code) == FALSE

\* cart.some(item => item.saree.code === code)
inCart(lines, code) == \E i \in DOMAIN lines : lines[i].saree.code = code

\* sales.filter(sale => sale.sareeCode !== code)
RECURSIVE filterSales(_, _)
filterSales(coll, code) ==
    IF coll = <<>> THEN <<>>
    ELSE IF Head(coll).sareeCode # code
         THEN <<Head(coll)>> \o filterSales(Tail(coll), code)
         ELSE filterSales(Tail(coll), code)

\* newCart.splice(index, 1)
splice(lines, index) ==
    SubSeq(lines, 1, index - 1) \o SubSeq(lines, index + 1, Len(lines))

-----------------------------------------------------------------------------
\* Storage requests and the save effect.

\* A store whose rejection stops the step that issued the request.
Rejected_blocks(n) ==
    /\ n = 0
    /\ UNCHANGED faultsLeft

\* n more requests are rejected in this step.
Rejected(n) ==
    /\ n <= faultsLeft
    /\ faultsLeft' = faultsLeft - n

\* setDBItem(key, value) on the store base: the put is applied, or rejected.
setDBItem(base, key, value, ok) ==
    IF ok THEN [base EXCEPT ![key] = Stored(value)] ELSE base

\* A save effect that stores the inventory and leaves the sales key alone.
SaveEffect_inventoryOnly(base, loaded, newSarees, newSales, before) ==
    IF loaded
    THEN \E okInv \in BOOLEAN :
            /\ idb' = setDBItem(base, "saree_inventory", newSarees, okInv)
            /\ Rejected(before + (IF okInv THEN 0 ELSE 1))
    ELSE /\ idb' = base
         /\ Rejected(before)

\* useEffect(..., [sarees, sales, isDBLoaded]): it runs after every render in
\* which one of the three changed; each of its two setDBItem calls is applied
\* or rejected on its own. before counts the requests rejected earlier in the
\* same step.
SaveEffect(base, loaded, newSarees, newSales, before) ==
    IF loaded
    THEN \E okInv, okSal \in BOOLEAN :
            /\ idb' = setDBItem(setDBItem(base, "saree_inventory", newSarees, okInv),
                                "saree_sales", newSales, okSal)
            /\ Rejected(before + (IF okInv THEN 0 ELSE 1) + (IF okSal THEN 0 ELSE 1))
    ELSE /\ idb' = base
         /\ Rejected(before)

\* A handler that returns before any setSarees / setSales: no effect runs.
NoEffect == UNCHANGED <<idb, faultsLeft>>

\* const CACHE_NAME = 'saree-pos-v1'
CACHE_NAME == "saree-pos-v1"

\* The URL of a request: its scheme and the rest. './' and './index.html'
\* are taken from the worker's own location.
Url(scheme, rest) == [scheme |-> scheme, rest |-> rest]

\* The core files of the offline cache: the root document, the page, the
\* manifest and the scanner library.
ASSETS_TO_CACHE ==
    { Url("https", "./"), Url("https", "./index.html"), Url("https", "./manifest.json"),
      Url("https", "//unpkg.com/html5-qrcode") }

\* No worker is registered; an earlier version of the application left a
\* cache of its own with its page.
NoWorker ==
    [state |-> "none",
     caches |-> [name \in {"saree-pos-v0"} |-> {Url("https", "./index.html")}],
     answered |-> [from |-> "none"],
     network |-> {}]

\* No export has been made.
NoDownload == [filename |-> "none", content |-> <<>>]

\* The tab, the scanner, the reset dialog and the service worker after
\* construction. Only SpecPos follows the tab and the scanner, only SpecReset
\* and SpecRestart the reset dialog and only SpecWorker the service worker;
\* the other specifications leave them as they start and let the handlers of
\* every tab fire, as they can after a change of tab.
InitDesk ==
    /\ activeTab = "dashboard"
    /\ download = NoDownload
    /\ isCameraActive = FALSE
    /\ camera = Idle(FALSE, "off")
    /\ showResetModal = FALSE
    /\ resetPc = "idle"
    /\ resetConfirmed = "no"
    /\ worker = NoWorker
    /\ devClickCount = 0
    /\ resetPassword = <<>>
    /\ passwordError = <<>>

InitWith(budget) ==
    /\ variant \in {"current", "legacy"}
    /\ sarees = <<>>
    /\ sales = <<>>
    /\ cart = <<>>
    /\ notification = NoNotification
    /\ isDBLoaded = FALSE
    /\ scanMode = "SELL"
    /\ showPaymentModal = FALSE
    /\ paymentMethod = "UPI"
    /\ clock = 0
    /\ loadPc = "getInventory"
    /\ savedSarees = Undefined
    /\ savedSales = Undefined
    /\ idb \in StoredStates
    /\ localStorage \in LegacyStates
    /\ reader = NoReader
    /\ faultsLeft = budget
    /\ idbAtStartup = idb
    /\ InitDesk

\* The store answers every request.
Init == InitWith(0)

\* The store may reject requests.
InitFaults == InitWith(MaxFaults)

\* What no handler of a running session touches.
session == <<variant, idbAtStartup, localStorage, download, resetConfirmed, worker>>

\* The point-of-sale view's mode and the payment dialog.
view == <<scanMode, showPaymentModal>>

\* The payment method selected and the clock.
till == <<paymentMethod, clock>>

\* The tab and the reset dialog.
desk == <<activeTab, showResetModal, devClickCount, resetPassword, passwordError,
          resetPc>>

\* The camera flag and the scanner.
lens == <<isCameraActive, camera>>

\* The state of loadData.
loading == <<isDBLoaded, loadPc, savedSarees, savedSales>>

-----------------------------------------------------------------------------
\* handleAddSaree (current variant)

handleAddSaree(text) ==
    /\ variant = "current"
    /\ ~showPaymentModal
    /\ LET code == toUpperCase(text) IN
       IF someCode(sarees, code)
       THEN /\ notification' = Notify("DuplicateCode", "error")
            /\ UNCHANGED sarees
            /\ NoEffect
       ELSE /\ Len(sarees) < MaxItems
            /\ sarees' = <<Item(code, AvailableText)>> \o sarees
            /\ notification' = Notify("SareeAdded", "success")
            /\ SaveEffect(idb, isDBLoaded, sarees', sales, 0)
    /\ UNCHANGED <<session, desk, lens, till, loading, sales, cart, view, reader>>

-----------------------------------------------------------------------------
\* Point of sale (current variant): addToCart, processReturn, handleScanInput

\* addToCart of a render whose sarees is stock and whose cart is lines.
addToCartOf(stock, lines, codeToScan) ==
    LET idx == findIndex(stock, codeToScan) IN
    /\ IF idx = 0
       THEN /\ notification' = Notify("NotFound", "error")
            /\ UNCHANGED cart
       ELSE IF stock[idx].status = SoldText
       THEN /\ notification' = Notify("AlreadySold", "error")
            /\ UNCHANGED cart
       ELSE IF inCart(lines, codeToScan)
       THEN /\ notification' = Notify("AlreadyInCart", "error")
            /\ UNCHANGED cart
       ELSE /\ cart' = Append(lines, CartLine(stock[idx]))
            /\ notification' = Notify("AddedToCart", "success")
    /\ UNCHANGED <<sarees, sales>>
    /\ NoEffect

\* addToCart of the latest render.
addToCart(codeToScan) == addToCartOf(sarees, cart, codeToScan)

\* A return that does not look at the item's status.
processReturnOf_anyStatus(stock, log, codeToScan) ==
    LET sareeIndex == findIndex(stock, codeToScan) IN
    /\ IF sareeIndex = 0
       THEN /\ notification' = Notify("NotFound", "error")
            /\ UNCHANGED <<sarees, sales>>
            /\ NoEffect
       ELSE /\ sarees' = [stock EXCEPT ![sareeIndex].status = AvailableText]
            /\ sales' = filterSales(log, codeToScan)
            /\ notification' = Notify("ReturnSuccessful", "success")
            /\ SaveEffect(idb, isDBLoaded, sarees', sales', 0)
    /\ UNCHANGED cart

\* processReturn of a render whose sarees is stock and whose sales is log.
processReturnOf(stock, log, codeToScan) ==
    LET sareeIndex == findIndex(stock, codeToScan) IN
    /\ IF sareeIndex = 0
       THEN /\ notification' = Notify("NotFound", "error")
            /\ UNCHANGED <<sarees, sales>>
            /\ NoEffect
       ELSE IF stock[sareeIndex].status = AvailableText
       THEN /\ notification' = Notify("AlreadyAvailable", "error")
            /\ UNCHANGED <<sarees, sales>>
            /\ NoEffect
       ELSE /\ sarees' = [stock EXCEPT ![sareeIndex].status = AvailableText]
            /\ sales' = filterSales(log, codeToScan)
            /\ notification' = Notify("ReturnSuccessful", "success")
            /\ SaveEffect(idb, isDBLoaded, sarees', sales', 0)
    /\ UNCHANGED cart

\* processReturn of the latest render.
processReturn(codeToScan) == processReturnOf(sarees, sales, codeToScan)

handleScanInput(text) ==
    /\ variant = "current"
    /\ ~showPaymentModal
    /\ text # <<>>
    /\ LET codeToScan == toUpperCase(trim(text)) IN
       IF scanMode = "SELL" THEN addToCart(codeToScan) ELSE processReturn(codeToScan)
    /\ UNCHANGED <<session, desk, lens, till, loading, view, reader>>

\* stopCameraScanner(): with a scanner object, stop() is called, which
\* settles later when the scanner is running and is rejected (and logged)
\* when it is not; without one, the camera flag is cleared at once.
stopScanner ==
    IF camera.ref
    THEN /\ camera' = IF camera.state = "running"
                      THEN Idle(TRUE, "stopping") ELSE camera
         /\ UNCHANGED isCameraActive
    ELSE /\ isCameraActive' = FALSE
         /\ UNCHANGED camera

\* The two mode buttons of the point-of-sale view:
\* setScanMode(mode); stopCameraScanner()
setScanMode(mode) ==
    /\ variant = "current"
    /\ ~showPaymentModal
    /\ scanMode' = mode
    /\ stopScanner
    /\ UNCHANGED <<session, desk, till, loading, sarees, sales, cart, notification, idb,
                   faultsLeft, reader, showPaymentModal>>

\* The X button of the running camera.
stopCameraScanner ==
    /\ variant = "current"
    /\ isCameraActive
    /\ stopScanner
    /\ UNCHANGED <<session, desk, till, loading, view, sarees, sales, cart,
                   notification, idb, faultsLeft, reader>>

\* stop() of a running scanner settles: clear(); setIsCameraActive(false)
scannerStopped ==
    /\ camera.state = "stopping"
    /\ camera' = Idle(TRUE, "off")
    /\ isCameraActive' = FALSE
    /\ UNCHANGED <<session, desk, till, loading, view, sarees, sales, cart,
                   notification, idb, faultsLeft, reader>>

\* The camera button. The model keeps one timer pending at a time.
startCameraScanner ==
    /\ variant = "current"
    /\ ~isCameraActive
    /\ camera.state = "off"
    /\ isCameraActive' = TRUE
    /\ camera' = Scanner(camera.ref, "starting", sarees, sales, cart, scanMode)
    /\ UNCHANGED <<session, desk, till, loading, view, sarees, sales, cart,
                   notification, idb, faultsLeft, reader>>

\* The 100 ms timer of startCameraScanner. The element "reader" is rendered on
\* the scan tab while the camera flag is set; with it, the scanner object is
\* created and start() resolves (the camera runs) or rejects (the catch
\* handler); without it, new Html5Qrcode("reader") throws.
openScanner ==
    /\ camera.state = "starting"
    /\ IF activeTab = "scan" /\ isCameraActive
       THEN \/ /\ camera' = [camera EXCEPT !.ref = TRUE, !.state = "running"]
               /\ UNCHANGED <<isCameraActive, notification>>
            \/ /\ camera' = Idle(TRUE, "off")
               /\ isCameraActive' = FALSE
               /\ notification' = Notify("CameraError", "error")
       ELSE /\ camera' = Idle(camera.ref, "off")
            /\ UNCHANGED <<isCameraActive, notification>>
    /\ UNCHANGED <<session, desk, till, loading, view, sarees, sales, cart,
                   idb, faultsLeft, reader>>

\* The decode callback of a running scanner: handleScanInput(decodedText) of
\* the render that started the camera, then stopCameraScanner().
onDecode(decodedText) ==
    /\ camera.state = "running"
    /\ IF decodedText = <<>>
       THEN UNCHANGED <<sarees, sales, cart, notification, idb, faultsLeft>>
       ELSE LET codeToScan == toUpperCase(trim(decodedText)) IN
            IF camera.scanMode = "SELL"
            THEN addToCartOf(camera.sarees, camera.cart, codeToScan)
            ELSE processReturnOf(camera.sarees, camera.sales, codeToScan)
    /\ camera' = Idle(TRUE, "stopping")
    /\ UNCHANGED <<session, desk, isCameraActive, till, loading, view, reader>>

\* The navigation buttons.
handleTabChange(newTab) ==
    /\ variant = "current"
    /\ ~showPaymentModal
    /\ ~showResetModal
    /\ IF activeTab = "scan" /\ isCameraActive /\ camera.ref
       THEN /\ camera' = IF camera.state = "running" THEN Idle(TRUE, "off") ELSE camera
            /\ isCameraActive' = FALSE
       ELSE UNCHANGED lens
    /\ activeTab' = newTab
    /\ UNCHANGED <<session, showResetModal, resetPc, devClickCount, resetPassword,
                   passwordError, till, loading, view, sarees, sales, cart,
                   notification, idb, faultsLeft, reader>>

\* Where the closure's line objects are in the cart after cart.splice(index, 1).
aliasAfterSplice(alias, index) ==
    [k \in DOMAIN alias |->
        IF alias[k] = index THEN 0
        ELSE IF alias[k] > index THEN alias[k] - 1 ELSE alias[k]]

\* The cart, its remove buttons and the checkout button are rendered in SELL
\* mode only.
removeCartItem(index) ==
    /\ variant = "current"
    /\ ~showPaymentModal
    /\ scanMode = "SELL"
    /\ index \in DOMAIN cart
    /\ cart' = splice(cart, index)
    /\ camera' = [camera EXCEPT !.alias = aliasAfterSplice(@, index)]
    /\ UNCHANGED <<session, desk, isCameraActive, till, loading, sarees, sales, notification, view,
                   idb, faultsLeft, reader>>

-----------------------------------------------------------------------------
\* completeSaleTransaction

\* One pass of cart.forEach over updatedSarees: the first item with the
\* line's code, if any, becomes sold.
markSold(coll, code) ==
    LET sIdx == findIndex(coll, code) IN
    IF sIdx > 0 THEN [coll EXCEPT ![sIdx].status = SoldText] ELSE coll

RECURSIVE soldAfter(_, _)
soldAfter(coll, lines) ==
    IF lines = <<>> THEN coll
    ELSE soldAfter(markSold(coll, Head(lines).saree.code), Tail(lines))

finalPrice_listPrice(cartItem) == cartItem.saree.mrp

\* The price of a cart line's selected tier.
finalPrice(cartItem) ==
    IF cartItem.selection = "MRP" THEN cartItem.saree.mrp
    ELSE IF cartItem.selection = "ASP60" THEN cartItem.saree.asp60
    ELSE orZero(parseFloat(cartItem.customPrice))

newSalesOf(lines, method, timestamp) ==
    [i \in DOMAIN lines |->
        SaleRecord(lines[i].saree.code, finalPrice(lines[i]), method, timestamp)]

\* n || 0 of a number: 0 is the only falsy number a price can be.
numberOrZero(n) == IF n = 0 THEN 0 ELSE n

\* A reduce callback that adds the list price whatever the selection.
addend_listPrice(item) == numberOrZero(item.saree.mrp)

\* What the reduce callback of calculateCartTotal adds for a line.
addend(item) ==
    IF item.selection = "MRP" THEN numberOrZero(item.saree.mrp)
    ELSE IF item.selection = "ASP60" THEN numberOrZero(item.saree.asp60)
    ELSE orZero(parseFloat(item.customPrice))

RECURSIVE calculateCartTotal(_)
\* cart.reduce((total, item) => ..., 0): the lines are added from the first
\* to the last.
calculateCartTotal(lines) ==
    IF lines = <<>> THEN 0
    ELSE calculateCartTotal(SubSeq(lines, 1, Len(lines) - 1)) + addend(lines[Len(lines)])

\* newCart[index].selection = selection; if (selection === 'CUSTOM')
\* newCart[index].customPrice = customVal : the line object itself is written.
repriced(cartItem, selection, customVal) ==
    [cartItem EXCEPT !.selection = selection,
                     !.customPrice = IF selection = "CUSTOM" THEN customVal ELSE @]

updateCartItemPrice(index, selection, customVal) ==
    /\ variant = "current"
    /\ ~showPaymentModal
    /\ scanMode = "SELL"
    /\ index \in DOMAIN cart
    /\ cart' = [cart EXCEPT ![index] = repriced(@, selection, customVal)]
    /\ camera' = [camera EXCEPT !.cart =
                    [k \in DOMAIN @ |->
                        IF camera.alias[k] = index
                        THEN repriced(@[k], selection, customVal) ELSE @[k]]]
    /\ UNCHANGED <<session, desk, isCameraActive, till, loading, sarees, sales, notification, view,
                   idb, faultsLeft, reader>>

\* The payment dialog's CASH and UPI buttons.
setPaymentMethod(method) ==
    /\ showPaymentModal
    /\ paymentMethod' = method
    /\ UNCHANGED <<session, desk, lens, clock, loading, sarees, sales, cart, notification,
                   view, idb, faultsLeft, reader>>

\* Time passes.
tick ==
    /\ clock < MaxClock
    /\ clock' = clock + 1
    /\ UNCHANGED <<session, desk, lens, paymentMethod, loading, sarees, sales, cart,
                   notification, view, idb, faultsLeft, reader>>

\* The "Checkout Items" button: setShowPaymentModal(true)
openPaymentModal ==
    /\ variant = "current"
    /\ ~showPaymentModal
    /\ scanMode = "SELL"
    /\ Len(cart) > 0
    /\ showPaymentModal' = TRUE
    /\ UNCHANGED <<session, desk, lens, till, loading, sarees, sales, cart, notification,
                   scanMode, idb, faultsLeft, reader>>

\* The dialog's Cancel button: setShowPaymentModal(false)
cancelPaymentModal ==
    /\ showPaymentModal
    /\ showPaymentModal' = FALSE
    /\ UNCHANGED <<session, desk, lens, till, loading, sarees, sales, cart, notification,
                   scanMode, idb, faultsLeft, reader>>

\* The dialog's Confirm button.
completeSaleTransaction ==
    /\ variant = "current"
    /\ showPaymentModal
    /\ IF Len(cart) = 0
       THEN UNCHANGED <<sarees, sales, cart, notification, idb, faultsLeft,
                        showPaymentModal, paymentMethod, camera>>
       ELSE /\ Len(sales) + Len(cart) <= MaxSales
            /\ camera' = [camera EXCEPT !.alias = [k \in DOMAIN @ |-> 0]]
            /\ showPaymentModal' = FALSE
            /\ paymentMethod' = "UPI"
            /\ sarees' = soldAfter(sarees, cart)
            /\ sales' = newSalesOf(cart, paymentMethod, clock) \o sales
            /\ cart' = <<>>
            /\ notification' = Notify("SaleCompleted", "success")
            /\ SaveEffect(idb, isDBLoaded, sarees', sales', 0)
    /\ UNCHANGED <<session, desk, isCameraActive, clock, loading, scanMode, reader>>

-----------------------------------------------------------------------------
\* Bulk import: handleFileUpload starts a FileReader; reader.onload runs later
\* with the sarees of the render in which the file was chosen.

\* values[codeIdx]?.replace(/"/g, '').toUpperCase() of an already trimmed cell
rowCode(row) == toUpperCase(row.code)

\* A status derivation that ignores the status cell.
rowStatus_alwaysAvailable(file, row) == AvailableText

\* The status derivation of one row: the cell's text, lower-cased and
\* trimmed, is kept as the status when it contains 'sold'.
rowStatus(file, row) ==
    LET statusStr == IF file.hasStatus /\ row.status # <<>>
                     THEN trim(toLowerCase(row.status))
                     ELSE AvailableText
    IN  IF ~includes(statusStr, SoldText) THEN AvailableText ELSE statusStr

\* sarees.some(s => s.code === code) || newSarees.some(s => s.code === code),
\* sarees being the closure's
isDuplicateRow(known, newSarees, code) ==
    code \in known \/ someCode(newSarees, code)

\* mrpIdx !== -1 && values[mrpIdx] ? parseFloat(values[mrpIdx]...) || 0 : 0
\* of a cell made of digits
rowPrice(hasColumn, cell) ==
    IF hasColumn /\ cell # <<>> THEN orZero(parseFloat(cell)) ELSE 0

\* newSarees.push({ code, mrp, asp60, status, ... })
importedSaree(file, row, code) ==
    Saree(code, rowStatus(file, row), rowPrice(file.hasMrp, row.mrp),
          rowPrice(file.hasAsp, row.asp60))

\* const newSarees = []; let addedCount = 0; let duplicateCount = 0;
EmptyBatch == [newSarees |-> <<>>, addedCount |-> 0, duplicateCount |-> 0]

\* The row loop: newSarees and the two counters after the rows from index i
\* on, given the batch so far.
RECURSIVE importRows(_, _, _, _)
importRows(file, known, i, batch) ==
    IF i > Len(file.rows) THEN batch
    ELSE LET code == rowCode(file.rows[i]) IN
         IF code = <<>>
         THEN importRows(file, known, i + 1, batch)
         ELSE IF isDuplicateRow(known, batch.newSarees, code)
         THEN importRows(file, known, i + 1,
                         [batch EXCEPT !.duplicateCount = @ + 1])
         ELSE importRows(file, known, i + 1,
                         [batch EXCEPT
                            !.newSarees =
                                Append(@, importedSaree(file, file.rows[i], code)),
                            !.addedCount = @ + 1])

\* The import's two toasts carry the counters.
ImportToast(message, type, batch) ==
    [message |-> message, type |-> type,
     addedCount |-> batch.addedCount, duplicateCount |-> batch.duplicateCount]

commitImport_atEnd(prev, newSarees) == prev \o newSarees

\* setSarees(prev => [...newSarees, ...prev])
commitImport(prev, newSarees) == newSarees \o prev

codesOf(coll) == {coll[i].code : i \in DOMAIN coll}

\* The codes onload will look up in the closure's sarees: those of the
\* file's rows, if the header has a code column at all.
rowCodes(file) ==
    IF file.hasCode THEN {rowCode(file.rows[i]) : i \in DOMAIN file.rows} ELSE {}

\* The closure keeps the sarees of this render; of them, the reader record
\* holds the codes that onload's sarees.some(...) can ever be asked about.
handleFileUpload(file) ==
    /\ variant = "current"
    /\ ~showPaymentModal
    /\ ~reader.busy
    /\ reader' = [busy |-> TRUE,
                  codes |-> codesOf(sarees) \cap rowCodes(file),
                  file |-> file]
    /\ UNCHANGED <<session, desk, lens, till, loading, sarees, sales, cart, notification,
                   view, idb, faultsLeft>>

readerOnload ==
    /\ reader.busy
    /\ reader' = NoReader
    /\ IF ~reader.file.hasCode
       THEN /\ notification' = Notify("MissingProductCodeColumn", "error")
            /\ UNCHANGED sarees
            /\ NoEffect
       ELSE LET batch == importRows(reader.file, reader.codes, 1, EmptyBatch)
            IN  IF batch.addedCount > 0
                THEN /\ Len(sarees) + Len(batch.newSarees) <= MaxItems
                     /\ sarees' = commitImport(sarees, batch.newSarees)
                     /\ notification' = ImportToast("Imported", "success", batch)
                     /\ SaveEffect(idb, isDBLoaded, sarees', sales, 0)
                ELSE /\ notification' = ImportToast("NoItemsImported", "error", batch)
                     /\ UNCHANGED sarees
                     /\ NoEffect
    /\ UNCHANGED <<session, desk, lens, till, loading, sales, cart, view>>

-----------------------------------------------------------------------------
\* Startup: loadData, suspended at each await.

\* A test that takes an empty array for no value.
truthy_nonEmpty(v) == v.has /\ v.val # <<>>

\* !savedSarees : undefined is falsy, an array (even an empty one) is truthy
truthy(v) == v.has

\* A catch block without the finally block: the load ends and the loaded
\* flag stays as it is.
loadFailed_noFinally(base, rejected) ==
    /\ loadPc' = "done"
    /\ savedSarees' = Undefined
    /\ savedSales' = Undefined
    /\ UNCHANGED <<sarees, sales, isDBLoaded>>
    /\ SaveEffect(base, isDBLoaded, sarees, sales, rejected)

\* The catch and finally blocks, then the save effect that follows
\* setIsDBLoaded(true). rejected: the requests rejected in this step.
loadFailed(base, rejected) ==
    /\ isDBLoaded' = TRUE
    /\ loadPc' = "done"
    /\ savedSarees' = Undefined
    /\ savedSales' = Undefined
    /\ UNCHANGED <<sarees, sales>>
    /\ SaveEffect(base, TRUE, sarees, sales, rejected)

\* if (savedSarees) setSarees(...); if (savedSales) setSales(...); the finally
\* block; then the save effect.
loadFinished(base, inv, sal) ==
    /\ sarees' = IF truthy(inv) THEN inv.val ELSE sarees
    /\ sales' = IF truthy(sal) THEN sal.val ELSE sales
    /\ isDBLoaded' = TRUE
    /\ loadPc' = "done"
    /\ savedSarees' = Undefined
    /\ savedSales' = Undefined
    /\ SaveEffect(base, TRUE, sarees', sales', 0)

\* The sales migration check, once the inventory one is over.
migrateSales(base, inv, sal) ==
    IF ~truthy(sal) /\ localStorage.saree_sales.kind # "null"
    THEN IF localStorage.saree_sales.kind = "garbage"
         THEN loadFailed(base, 0)
         ELSE /\ savedSarees' = inv
              /\ savedSales' = Stored(localStorage.saree_sales.val)
              /\ loadPc' = "putSales"
              /\ idb' = base
              /\ UNCHANGED <<sarees, sales, isDBLoaded, faultsLeft>>
    ELSE loadFinished(base, inv, sal)

\* The inventory migration check, entered once both reads have resolved.
migrateInventory(inv, sal) ==
    IF ~truthy(inv) /\ localStorage.saree_inventory.kind # "null"
    THEN IF localStorage.saree_inventory.kind = "garbage"
         THEN loadFailed(idb, 0)
         ELSE /\ savedSarees' = Stored(localStorage.saree_inventory.val)
              /\ savedSales' = sal
              /\ loadPc' = "putInventory"
              /\ UNCHANGED <<sarees, sales, isDBLoaded, idb, faultsLeft>>
    ELSE migrateSales(idb, inv, sal)

\* await getDBItem('saree_inventory') settles
getInventorySettles ==
    /\ loadPc = "getInventory"
    /\ \/ /\ savedSarees' = idb.saree_inventory
          /\ loadPc' = "getSales"
          /\ UNCHANGED <<sarees, sales, isDBLoaded, savedSales, idb, faultsLeft>>
       \/ loadFailed(idb, 1)
    /\ UNCHANGED <<session, desk, lens, till, cart, notification, view, reader>>

\* await getDBItem('saree_sales') settles
getSalesSettles ==
    /\ loadPc = "getSales"
    /\ \/ migrateInventory(savedSarees, idb.saree_sales)
       \/ loadFailed(idb, 1)
    /\ UNCHANGED <<session, desk, lens, till, cart, notification, view, reader>>

\* await setDBItem('saree_inventory', savedSarees) settles
putInventorySettles ==
    /\ loadPc = "putInventory"
    /\ \/ migrateSales(setDBItem(idb, "saree_inventory", savedSarees.val, TRUE),
                       savedSarees, savedSales)
       \/ loadFailed(idb, 1)
    /\ UNCHANGED <<session, desk, lens, till, cart, notification, view, reader>>

\* await setDBItem('saree_sales', savedSales) settles
putSalesSettles ==
    /\ loadPc = "putSales"
    /\ \/ loadFinished(setDBItem(idb, "saree_sales", savedSales.val, TRUE),
                       savedSarees, savedSales)
       \/ loadFailed(idb, 1)
    /\ UNCHANGED <<session, desk, lens, till, cart, notification, view, reader>>

-----------------------------------------------------------------------------
\* The legacy variant: handleAddSaree with a generated code, processSale.

\* generateProductCode: a prefix and a random number; any code of the
\* generator's range can come out, whatever the inventory holds.
generateProductCode == GeneratedCodes

legacyHandleAddSaree ==
    /\ variant = "legacy"
    /\ Len(sarees) < MaxItems
    /\ \E newCode \in generateProductCode :
          sarees' = <<Item(newCode, AvailableText)>> \o sarees
    /\ notification' = Notify("SareeAdded", "success")
    /\ SaveEffect(idb, isDBLoaded, sarees', sales, 0)
    /\ UNCHANGED <<session, desk, lens, till, loading, sales, cart, view, reader>>

processSale(codeToScan) ==
    LET sareeIndex == findIndex(sarees, codeToScan) IN
    IF sareeIndex = 0
    THEN /\ notification' = Notify("NotFound", "error")
         /\ UNCHANGED <<sarees, sales>>
         /\ NoEffect
    ELSE IF sarees[sareeIndex].status = SoldText
    THEN /\ notification' = Notify("AlreadySold", "error")
         /\ UNCHANGED <<sarees, sales>>
         /\ NoEffect
    ELSE /\ Len(sales) < MaxSales
         /\ sarees' = [sarees EXCEPT ![sareeIndex].status = SoldText]
         /\ sales' = <<Sale(codeToScan)>> \o sales
         /\ notification' = Notify("MarkedSold", "success")
         /\ SaveEffect(idb, isDBLoaded, sarees', sales', 0)

handleManualScan(text) ==
    /\ variant = "legacy"
    /\ processSale(toUpperCase(trim(text)))
    /\ UNCHANGED <<session, desk, lens, till, loading, cart, view, reader>>

-----------------------------------------------------------------------------
Next ==
    \/ getInventorySettles
    \/ getSalesSettles
    \/ putInventorySettles
    \/ putSalesSettles
    \/ \E text \in FormCodes : handleAddSaree(text)
    \/ \E text \in ScanTexts : handleScanInput(text)
    \/ \E mode \in {"SELL", "RETURN"} : setScanMode(mode)
    \/ \E index \in 1..MaxItems : removeCartItem(index)
    \/ openPaymentModal
    \/ cancelPaymentModal
    \/ completeSaleTransaction
    \/ \E file \in Files : handleFileUpload(file)
    \/ readerOnload
    \/ legacyHandleAddSaree
    \/ \E text \in ScanTexts : handleManualScan(text)

Spec == Init /\ [][Next]_vars

SpecFaults == InitFaults /\ [][Next]_vars

-----------------------------------------------------------------------------
\* Factory reset.

\* const RESET_PASSWORD = "9999"
RESET_PASSWORD == <<"9", "9", "9", "9">>

\* What is typed into the PIN field.
PinTexts == {RESET_PASSWORD, <<"9", "9", "9">>}

\* Clicks on the dashboard title that open the reset dialog.
ResetClicks == 5

\* A click on the dashboard title.
handleHiddenResetTrigger ==
    /\ variant = "current"
    /\ activeTab = "dashboard"
    /\ ~showResetModal
    /\ IF devClickCount + 1 >= ResetClicks
       THEN /\ showResetModal' = TRUE
            /\ resetPassword' = <<>>
            /\ passwordError' = <<>>
            /\ devClickCount' = 0
       ELSE /\ devClickCount' = devClickCount + 1
            /\ UNCHANGED <<showResetModal, resetPassword, passwordError>>
    /\ UNCHANGED <<session, activeTab, resetPc, lens, till, loading, view, sarees,
                   sales, cart, notification, idb, faultsLeft, reader>>

\* clickTimeoutRef: a second without a click, setDevClickCount(0)
clickTimeout ==
    /\ devClickCount > 0
    /\ devClickCount' = 0
    /\ UNCHANGED <<session, activeTab, showResetModal, resetPc, resetPassword,
                   passwordError, lens, till, loading, view, sarees, sales, cart, notification,
                   idb, faultsLeft, reader>>

\* The PIN field's onChange.
setResetPassword(text) ==
    /\ showResetModal
    /\ resetPassword' = text
    /\ passwordError' = <<>>
    /\ UNCHANGED <<session, activeTab, showResetModal, resetPc, devClickCount, lens,
                   till, loading, view, sarees, sales, cart, notification, idb,
                   faultsLeft, reader>>

\* The dialog's Cancel button.
cancelReset ==
    /\ showResetModal
    /\ showResetModal' = FALSE
    /\ resetPassword' = <<>>
    /\ passwordError' = <<>>
    /\ UNCHANGED <<session, activeTab, resetPc, devClickCount, lens, till, loading,
                   view, sarees, sales, cart, notification, idb, faultsLeft, reader>>

NoLegacy == [saree_inventory |-> Null, saree_sales |-> Null]

\* performFactoryReset up to its first await: the three collections are
\* emptied, the save effect of that render writes empty arrays when the load
\* has finished, and setDBItem('saree_inventory', []) is issued. The store
\* serves its requests in the order they are issued, so a put takes effect
\* where it is issued; a rejected put throws out of the handler, which leaves
\* the second put, the legacy keys, the dialog and the toast as they are.
performFactoryReset ==
    /\ resetPc = "idle"
    /\ sarees' = <<>>
    /\ sales' = <<>>
    /\ cart' = <<>>
    /\ resetConfirmed' = "thisSession"
    /\ camera' = [camera EXCEPT !.alias = [k \in DOMAIN @ |-> 0]]
    /\ \E okInv, effInv, effSal \in BOOLEAN :
          /\ ~isDBLoaded => effInv /\ effSal
          /\ idb' = [saree_inventory |->
                        IF okInv \/ (isDBLoaded /\ effInv)
                        THEN Stored(<<>>) ELSE idb.saree_inventory,
                     saree_sales |->
                        IF isDBLoaded /\ effSal
                        THEN Stored(<<>>) ELSE idb.saree_sales]
          /\ Rejected((IF okInv THEN 0 ELSE 1) + (IF effInv THEN 0 ELSE 1)
                      + (IF effSal THEN 0 ELSE 1))
          /\ resetPc' = IF okInv THEN "putInventory" ELSE "idle"
    /\ UNCHANGED <<localStorage, showResetModal, notification, resetPassword,
                   passwordError>>

\* await setDBItem('saree_inventory', []) has answered: the put of the empty
\* sales is issued.
resetInventorySettles ==
    /\ resetPc = "putInventory"
    /\ \E okSal \in BOOLEAN :
          /\ idb' = setDBItem(idb, "saree_sales", <<>>, okSal)
          /\ Rejected(IF okSal THEN 0 ELSE 1)
          /\ resetPc' = IF okSal THEN "putSales" ELSE "idle"
    /\ UNCHANGED <<variant, idbAtStartup, download, resetConfirmed, worker, localStorage,
                   activeTab, showResetModal, devClickCount, resetPassword, passwordError,
                   lens, till, loading, view, sarees, sales, cart, notification,
                   reader>>

\* await setDBItem('saree_sales', []) has answered: the legacy keys are
\* removed, the dialog is closed and the toast shown.
resetSalesSettles ==
    /\ resetPc = "putSales"
    /\ resetPc' = "idle"
    /\ localStorage' = NoLegacy
    /\ showResetModal' = FALSE
    /\ notification' = Notify("FactoryResetComplete", "success")
    /\ UNCHANGED <<variant, idbAtStartup, download, resetConfirmed, worker, activeTab,
                   devClickCount, resetPassword, passwordError, lens, till, loading,
                   view, sarees, sales, cart, idb, faultsLeft, reader>>

\* The dialog's "Yes, Wipe Everything" button.
submitReset ==
    /\ showResetModal
    /\ IF resetPassword = RESET_PASSWORD
       THEN performFactoryReset
       ELSE /\ passwordError' = <<"Incorrect PIN">>
            /\ UNCHANGED <<sarees, sales, cart, camera, idb, faultsLeft, localStorage,
                           showResetModal, notification, resetPassword, resetPc,
                           resetConfirmed>>
    /\ UNCHANGED <<variant, idbAtStartup, download, worker, activeTab, devClickCount,
                   isCameraActive,
                   till, loading, view, reader>>

-----------------------------------------------------------------------------
\* The till: a session of the current variant whose startup load has finished
\* and whose store holds two available items.

ShopStock ==
    <<Item(<<"A">>, AvailableText), Saree(<<"B">>, AvailableText, 700, 600)>>

\* What the custom price field can hold (type="number": digits or nothing).
CustomTexts == {<<>>, <<"4", "5", "0">>}

InitCheckout ==
    /\ variant = "current"
    /\ sarees = ShopStock
    /\ sales = <<>>
    /\ cart = <<>>
    /\ notification = NoNotification
    /\ isDBLoaded = TRUE
    /\ scanMode = "SELL"
    /\ showPaymentModal = FALSE
    /\ paymentMethod = "UPI"
    /\ clock = 0
    /\ loadPc = "done"
    /\ savedSarees = Stored(ShopStock)
    /\ savedSales = Stored(<<>>)
    /\ idb = [saree_inventory |-> Stored(ShopStock), saree_sales |-> Stored(<<>>)]
    /\ localStorage = [saree_inventory |-> Null, saree_sales |-> Null]
    /\ reader = NoReader
    /\ faultsLeft = 0
    /\ idbAtStartup = idb
    /\ InitDesk

NextCheckout ==
    \/ \E text \in ScanTexts : handleScanInput(text)
    \/ \E mode \in {"SELL", "RETURN"} : setScanMode(mode)
    \/ \E index \in 1..MaxItems : removeCartItem(index)
    \/ \E index \in 1..MaxItems, selection \in {"MRP", "ASP60"} :
            updateCartItemPrice(index, selection, <<>>)
    \/ \E index \in 1..MaxItems, customVal \in CustomTexts :
            updateCartItemPrice(index, "CUSTOM", customVal)
    \/ openPaymentModal
    \/ \E method \in {"Cash", "UPI"} : setPaymentMethod(method)
    \/ cancelPaymentModal
    \/ completeSaleTransaction
    \/ tick

SpecCheckout == InitCheckout /\ [][NextCheckout]_vars

-----------------------------------------------------------------------------
\* The point of sale: a session whose startup load has finished, with its
\* tabs, the scanner, the cart and the reset dialog.

Tabs == {"dashboard", "scan"}

NextPos ==
    \/ \E newTab \in Tabs : handleTabChange(newTab)
    \/ activeTab = "scan" /\ ~isCameraActive
          /\ \E text \in ScanTexts : handleScanInput(text)
    \/ activeTab = "scan" /\ \E mode \in {"SELL", "RETURN"} : setScanMode(mode)
    \/ activeTab = "scan" /\ \E index \in 1..MaxItems : removeCartItem(index)
    \/ activeTab = "scan"
          /\ \E index \in 1..MaxItems, selection \in {"MRP", "ASP60"} :
                updateCartItemPrice(index, selection, <<>>)
    \/ activeTab = "scan" /\ openPaymentModal
    \/ cancelPaymentModal
    \/ completeSaleTransaction
    \/ activeTab = "scan" /\ ~showPaymentModal /\ startCameraScanner
    \/ openScanner
    \/ \E decodedText \in ScanTexts : onDecode(decodedText)
    \/ activeTab = "scan" /\ ~showPaymentModal /\ stopCameraScanner
    \/ scannerStopped

SpecPos == InitCheckout /\ [][NextPos]_vars

-----------------------------------------------------------------------------
\* The reset dialog, from the start of a session on: the startup load, the
\* add form, the scan form in SELL mode and the dialog. The store may hold
\* the empty collections a reset or a session without stock has saved.

EmptyStore == [saree_inventory |-> Stored(<<>>), saree_sales |-> Stored(<<>>)]

InitReset ==
    /\ variant = "current"
    /\ sarees = <<>>
    /\ sales = <<>>
    /\ cart = <<>>
    /\ notification = NoNotification
    /\ isDBLoaded = FALSE
    /\ scanMode = "SELL"
    /\ showPaymentModal = FALSE
    /\ paymentMethod = "UPI"
    /\ clock = 0
    /\ loadPc = "getInventory"
    /\ savedSarees = Undefined
    /\ savedSales = Undefined
    /\ idb \in StoredStates \cup {EmptyStore}
    /\ localStorage \in LegacyStates
    /\ reader = NoReader
    /\ faultsLeft = 0
    /\ idbAtStartup = idb
    /\ InitDesk

NextReset ==
    \/ getInventorySettles
    \/ getSalesSettles
    \/ putInventorySettles
    \/ putSalesSettles
    \/ ~showResetModal /\ \E text \in FormCodes : handleAddSaree(text)
    \/ ~showResetModal /\ \E text \in ScanTexts : handleScanInput(text)
    \/ handleHiddenResetTrigger
    \/ clickTimeout
    \/ \E text \in PinTexts : setResetPassword(text)
    \/ cancelReset
    \/ submitReset
    \/ resetInventorySettles
    \/ resetSalesSettles

SpecReset == InitReset /\ [][NextReset]_vars

-----------------------------------------------------------------------------
\* The till over a store that may reject requests: a session of the current
\* variant from its startup load on, with the add form, the scan form, the
\* mode buttons and the checkout.

InitTill ==
    /\ InitFaults
    /\ variant = "current"

NextTill ==
    \/ getInventorySettles
    \/ getSalesSettles
    \/ putInventorySettles
    \/ putSalesSettles
    \/ \E text \in FormCodes : handleAddSaree(text)
    \/ \E text \in ScanTexts : handleScanInput(text)
    \/ \E mode \in {"SELL", "RETURN"} : setScanMode(mode)
    \/ openPaymentModal
    \/ cancelPaymentModal
    \/ completeSaleTransaction

SpecTill == InitTill /\ [][NextTill]_vars

-----------------------------------------------------------------------------
\* Startup over whatever an earlier session left: a store without the keys,
\* with collections or with empty arrays, and localStorage with or without
\* the legacy keys; the add form and the scan form can be used meanwhile.

NextStartup ==
    \/ getInventorySettles
    \/ getSalesSettles
    \/ putInventorySettles
    \/ putSalesSettles
    \/ \E text \in FormCodes : handleAddSaree(text)
    \/ \E text \in ScanTexts : handleScanInput(text)

SpecStartup == InitReset /\ [][NextStartup]_vars

-----------------------------------------------------------------------------
\* Export: exportToCSV and, to read its table back, the row parser of the
\* import. In this specification an item or a sale is the whole object, as
\* the ordered list of its entries (Object.keys and Object.values follow the
\* order in which the literal names the properties), and a text is a
\* sequence of symbols: single characters, or a whole word that holds no
\* quote, comma, space or line break.

\* Longest shop name the export specification enters.
MaxText == 2

Quote == "\""

NewLine == "\n"

Number(n) == [type |-> "number", value |-> n]

Text(s) == [type |-> "string", value |-> s]

\* String(val) of a number or of a string
StringOf(val) == IF val.type = "number" THEN String(val.value) ELSE val.value

Entry(key, val) == [key |-> key, val |-> val]

\* The object handleAddSaree builds.
newSaree(code, shopName) ==
    << Entry("id", Text(<<"1">>)),
       Entry("code", Text(code)),
       Entry("shopName", Text(shopName)),
       Entry("shopCode", Text(<<"N/A">>)),
       Entry("type", Text(<<"Cotton">>)),
       Entry("cp", Number(0)),
       Entry("mrp", Number(FormPrices.mrp)),
       Entry("asp60", Number(FormPrices.asp60)),
       Entry("status", Text(<<"available">>)),
       Entry("dateAdded", Text(<<"2026-01-01T09:00:00.000Z">>)) >>

\* The object the import loop pushes: no type property.
importedObject(code, shopName) ==
    << Entry("id", Text(<<"2", "1">>)),
       Entry("code", Text(code)),
       Entry("shopName", Text(shopName)),
       Entry("shopCode", Text(<<"N/A">>)),
       Entry("cp", Number(0)),
       Entry("mrp", Number(FormPrices.mrp)),
       Entry("asp60", Number(FormPrices.asp60)),
       Entry("status", Text(<<"available">>)),
       Entry("dateAdded", Text(<<"2026-01-01T09:00:00.000Z">>)) >>

\* The object completeSaleTransaction pushes; toLocaleString() puts a comma
\* and a space between the date and the time.
saleObject(code) ==
    << Entry("id", Text(<<"3">>)),
       Entry("sareeCode", Text(code)),
       Entry("salePrice", Number(FormPrices.mrp)),
       Entry("paymentMethod", Text(<<"UPI">>)),
       Entry("saleDate", Text(<<"1/1/2026", ",", " ", "9:00:00">>)) >>

\* The texts of at most n symbols over the letter a, the comma and the quote.
RECURSIVE Texts(_)
Texts(n) ==
    IF n = 0 THEN {<<>>}
    ELSE Texts(n - 1) \cup
         {Append(s, ch) : s \in {t \in Texts(n - 1) : Len(t) = n - 1},
                          ch \in {"a", ",", Quote}}

\* s.replace(/"/g, '')
RECURSIVE removeQuotes(_)
removeQuotes(s) ==
    IF s = <<>> THEN <<>>
    ELSE IF Head(s) = Quote THEN removeQuotes(Tail(s))
         ELSE <<Head(s)>> \o removeQuotes(Tail(s))

\* s.replace(/"/g, '""')
RECURSIVE doubleQuotes(_)
doubleQuotes(s) ==
    IF s = <<>> THEN <<>>
    ELSE IF Head(s) = Quote THEN <<Quote, Quote>> \o doubleQuotes(Tail(s))
         ELSE <<Head(s)>> \o doubleQuotes(Tail(s))

\* parts.join(separator)
RECURSIVE join(_, _)
join(parts, separator) ==
    IF parts = <<>> THEN <<>>
    ELSE IF Len(parts) = 1 THEN parts[1]
         ELSE parts[1] \o separator \o join(Tail(parts), separator)

\* text.split(ch)
RECURSIVE split(_, _)
split(text, ch) ==
    IF \A k \in DOMAIN text : text[k] # ch THEN <<text>>
    ELSE LET first == CHOOSE k \in DOMAIN text :
                         text[k] = ch /\ \A earlier \in 1..(k - 1) : text[earlier] # ch
         IN <<SubSeq(text, 1, first - 1)>> \o split(SubSeq(text, first + 1, Len(text)), ch)

\* Shop names the add form can leave in an item: what was typed, never empty
\* (formData.get('shopName') || 'Unknown Shop').
FormShopNames == (Texts(MaxText) \ {<<>>}) \cup {<<"Unknown Shop">>}

\* Shop names the import can leave in an item: a cell that is not empty with
\* its quotes removed.
ImportShopNames == {removeQuotes(cell) : cell \in Texts(MaxText) \ {<<>>}} \cup {<<"Unknown Shop">>}

ExportItems ==
    {newSaree(<<"A">>, shopName) : shopName \in FormShopNames}
        \cup {importedObject(<<"B">>, shopName) : shopName \in ImportShopNames}

\* Inventories of at most two items, in either order of creation.
ExportInventories ==
    {<<>>} \cup {<<item>> : item \in ExportItems}
           \cup {<<first, second>> : first \in ExportItems, second \in ExportItems}

ExportSales == {<<>>, <<saleObject(<<"A">>)>>, <<saleObject(<<"B">>), saleObject(<<"A">>)>>}

\* Object.keys(obj)
keys(obj) == [j \in DOMAIN obj |-> <<obj[j].key>>]

\* Object.values(obj).map(val => `"${String(val).replace(/"/g, '""')}"`)
cells(obj) == [j \in DOMAIN obj |-> <<Quote>> \o doubleQuotes(StringOf(obj[j].val)) \o <<Quote>>]

\* [headers, ...rows].join('\n')
csvContent(data) ==
    join(<<join(keys(data[1]), <<",">>)>>
            \o [i \in DOMAIN data |-> join(cells(data[i]), <<",">>)],
         <<NewLine>>)

\* The two export buttons of the dashboard.
exportToCSV(data, filename) ==
    /\ variant = "current"
    /\ IF Len(data) = 0
       THEN /\ notification' = Notify("NoDataToExport", "error")
            /\ UNCHANGED download
       ELSE /\ download' = [filename |-> filename, content |-> csvContent(data)]
            /\ notification' = Notify("Downloaded", "success")
    /\ UNCHANGED <<variant, idbAtStartup, localStorage, resetConfirmed, worker, desk, lens,
                   till,
                   loading, view, sarees, sales, cart, idb, faultsLeft, reader>>

\* const delimiter = text.includes('|') ? '|' : ','
delimiterOf(text) == IF includes(text, <<"|">>) THEN "|" ELSE ","

\* parseCSVRow's loop from index i on.
RECURSIVE parseFrom(_, _, _, _, _, _)
parseFrom(str, delimiter, i, cell, inQuotes, result) ==
    IF i > Len(str) THEN Append(result, trim(cell))
    ELSE IF str[i] = Quote /\ i + 1 <= Len(str) /\ str[i + 1] = Quote
         THEN parseFrom(str, delimiter, i + 2, Append(cell, Quote), inQuotes, result)
    ELSE IF str[i] = Quote
         THEN parseFrom(str, delimiter, i + 1, cell, ~inQuotes, result)
    ELSE IF str[i] = delimiter /\ ~inQuotes
         THEN parseFrom(str, delimiter, i + 1, <<>>, inQuotes, Append(result, trim(cell)))
    ELSE parseFrom(str, delimiter, i + 1, Append(cell, str[i]), inQuotes, result)

parseCSVRow(str, delimiter) == parseFrom(str, delimiter, 1, <<>>, FALSE, <<>>)

InitExport ==
    /\ variant = "current"
    /\ sarees \in ExportInventories
    /\ sales \in ExportSales
    /\ cart = <<>>
    /\ notification = NoNotification
    /\ isDBLoaded = TRUE
    /\ scanMode = "SELL"
    /\ showPaymentModal = FALSE
    /\ paymentMethod = "UPI"
    /\ clock = 0
    /\ loadPc = "done"
    /\ savedSarees = Undefined
    /\ savedSales = Undefined
    /\ idb = [saree_inventory |-> Stored(sarees), saree_sales |-> Stored(sales)]
    /\ localStorage = NoLegacy
    /\ reader = NoReader
    /\ faultsLeft = 0
    /\ idbAtStartup = idb
    /\ InitDesk

NextExport ==
    \/ exportToCSV(sarees, "Inventory_Master")
    \/ exportToCSV(sales, "Sales_Log")

SpecExport == InitExport /\ [][NextExport]_vars

-----------------------------------------------------------------------------
\* The shop floor of a loaded session that starts with nothing: the add
\* form, the import, the scan form in both modes and the checkout. Codes are
\* also entered with a space in front: the same texts are typed into the add
\* form, carried by a cell of an import file and typed into the scan field.

EntryTexts == {<<"a">>, <<" ", "b">>}

\* A file with one row whose code cell carries the text; parseCSVRow trims
\* every cell.
EntryFiles ==
    {CSV(<<HeaderCode, HeaderMrp, HeaderAsp60>>, <<PricedRow(trim(text), <<>>)>>) :
        text \in EntryTexts}

InitCodes ==
    /\ InitExport
    /\ sarees = <<>>
    /\ sales = <<>>

NextCodes ==
    \/ \E text \in FormCodes \cup EntryTexts : handleAddSaree(text)
    \/ \E text \in ScanTexts \cup EntryTexts : handleScanInput(text)
    \/ \E mode \in {"SELL", "RETURN"} : setScanMode(mode)
    \/ openPaymentModal
    \/ cancelPaymentModal
    \/ completeSaleTransaction
    \/ \E file \in Files \cup EntryFiles : handleFileUpload(file)
    \/ readerOnload

SpecCodes == InitCodes /\ [][NextCodes]_vars

-----------------------------------------------------------------------------
\* Properties.

soldCodes(coll) == {coll[i].code : i \in {k \in DOMAIN coll : coll[k].status = SoldText}}

availableCodes(coll) ==
    {coll[i].code : i \in {k \in DOMAIN coll : coll[k].status = AvailableText}}

\* C1: in every reachable state no two items of the inventory have the same
\* code, whichever operations created them (manual add, bulk import, the
\* legacy variant's add with a generated code).
CodesUnique ==
    \A i, j \in DOMAIN sarees : i # j => sarees[i].code # sarees[j].code

\* C2: in every reachable state, a Sale whose sareeCode is the code of an
\* item of the inventory refers to a sold item: no item with that code is
\* available.
SalesReferToSoldItems ==
    \A s \in DOMAIN sales : \A i \in DOMAIN sarees :
        sarees[i].code = sales[s].sareeCode => sarees[i].status = SoldText

\* The code a scanned or typed text stands for: handleScanInput's
\* normalisation.
scannedCode(text) == toUpperCase(trim(text))

\* Number of Sales of a code in a sales log.
salesOf(coll, code) == Cardinality({i \in DOMAIN coll : coll[i].sareeCode = code})

\* C3: once an item is sold, an attempt to sell its code again (with no
\* return in between) is rejected as AlreadySold and creates no Sale:
\* addToCart leaves the cart as it is, processSale leaves the sales as they
\* are, and a checkout adds no Sale for a code that is sold.
SoldCodeIsNotSoldAgain ==
    [][ /\ \A text \in ScanTexts :
              ( /\ handleScanInput(text)
                /\ scanMode = "SELL"
                /\ scannedCode(text) \in soldCodes(sarees) )
              => (notification'.message = "AlreadySold" /\ cart' = cart)
        /\ \A text \in ScanTexts :
              ( /\ handleManualScan(text)
                /\ scannedCode(text) \in soldCodes(sarees) )
              => (notification'.message = "AlreadySold" /\ sales' = sales)
        /\ completeSaleTransaction
              => \A code \in soldCodes(sarees) :
                    salesOf(sales', code) <= salesOf(sales, code)
      ]_vars

cartCodesDistinct ==
    \A i, j \in DOMAIN cart : i # j => cart[i].saree.code # cart[j].saree.code

cartCodes == {cart[k].saree.code : k \in DOMAIN cart}

\* The items a step changes, by position.
changedItems == {i \in DOMAIN sarees : sarees'[i] # sarees[i]}

\* C4: a checkout of a cart of N lines with distinct codes, each the code of
\* an available item of the inventory, adds exactly N Sales in front of the
\* log (one per line, with the line's code), turns exactly those N items
\* from available to sold, and empties the cart, in one step; a checkout of
\* an empty cart changes nothing.
CheckoutBatchLaw ==
    [][ /\ ( /\ completeSaleTransaction
             /\ Len(cart) > 0
             /\ cartCodesDistinct
             /\ cartCodes \subseteq availableCodes(sarees) )
           => /\ Len(sarees') = Len(sarees)
              /\ Cardinality(changedItems) = Len(cart)
              /\ \A i \in changedItems :
                    /\ sarees[i].status = AvailableText
                    /\ sarees'[i] = [sarees[i] EXCEPT !.status = SoldText]
              /\ {sarees[i].code : i \in changedItems} = cartCodes
              /\ Len(sales') = Len(sales) + Len(cart)
              /\ SubSeq(sales', Len(cart) + 1, Len(sales')) = sales
              /\ \A k \in DOMAIN cart : sales'[k].sareeCode = cart[k].saree.code
              /\ cart' = <<>>
        /\ (completeSaleTransaction /\ Len(cart) = 0)
           => UNCHANGED <<sarees, sales, cart>>
      ]_vars

\* C5: processReturn with the code of a sold item makes the item available
\* and leaves no Sale of that code; processReturn with a code whose items are
\* available (so also the return that follows at once) fails with
\* AlreadyAvailable and changes nothing.
ReturnRestoresAvailability ==
    [][ \A text \in ScanTexts :
          (handleScanInput(text) /\ scanMode = "RETURN")
          => LET code == scannedCode(text) IN
             /\ code \in soldCodes(sarees)
                => /\ code \notin soldCodes(sarees')
                   /\ code \in availableCodes(sarees')
                   /\ salesOf(sales', code) = 0
             /\ (code \in availableCodes(sarees) /\ code \notin soldCodes(sarees))
                => /\ notification'.message = "AlreadyAvailable"
                   /\ UNCHANGED <<sarees, sales, cart>>
      ]_vars

Keys == {"saree_inventory", "saree_sales"}

\* The step in which loadData ends: setIsDBLoaded(true) and the save effect
\* that follows it.
startupFinishes == ~isDBLoaded /\ isDBLoaded'

\* A step of loadData.
loadStep ==
    getInventorySettles \/ getSalesSettles \/ putInventorySettles \/ putSalesSettles

\* C6: while the startup load has not finished, the store changes only by
\* loadData's own migration writes (the save effect issues none); and in
\* the step that finishes startup, whatever the outcome of the load, no key
\* that held a non-empty collection is overwritten with an empty one.
StartupWriteGuard ==
    [][ /\ ~isDBLoaded' => (idb' = idb \/ putInventorySettles \/ putSalesSettles)
        /\ startupFinishes
           => \A key \in Keys :
                 (idb[key].has /\ idb[key].val # <<>>) => idb'[key].val # <<>>
      ]_vars

memory(key) == IF key = "saree_inventory" THEN sarees ELSE sales

\* C7: for each key on its own, if the store had no value for the key when
\* the session started and localStorage holds a JSON text for it, then when
\* startup finishes the in-memory collection is the decoded legacy value and
\* the store holds that value under the key.
LegacyMigrationPerKey ==
    [][ startupFinishes
        => \A key \in Keys :
              (~idbAtStartup[key].has /\ localStorage[key].kind = "json")
              => /\ memory(key)' = localStorage[key].val
                 /\ idb'[key] = Stored(localStorage[key].val)
      ]_vars

\* The upper-case form of a typed code, letter by letter.
upperCased(text) == [i \in DOMAIN text |-> UpperChar(text[i])]

\* C8: a manual add whose upper-cased code is the code of an item of the
\* inventory fails with DuplicateCode and leaves the inventory (contents and
\* order), the sales and the cart as they were.
DuplicateAddIsRejected ==
    [][ \A text \in FormCodes :
          ( /\ handleAddSaree(text)
            /\ \E i \in DOMAIN sarees : sarees[i].code = upperCased(text) )
          => /\ notification'.message = "DuplicateCode"
             /\ UNCHANGED <<sarees, sales, cart>>
      ]_vars

\* C8's case: a manual add has just been refused with DuplicateCode, with a
\* full inventory and a line in the cart.
DuplicateAddRefused ==
    /\ notification.message = "DuplicateCode"
    /\ Len(sarees) = MaxItems
    /\ cart # <<>>

\* The number of items a step puts in front of the inventory.
created == Len(sarees') - Len(sarees)

\* The steps that create items.
manualAddStep == (\E text \in FormCodes : handleAddSaree(text)) \/ legacyHandleAddSaree

\* A step that sells: the checkout, or processSale in the legacy variant.
checkoutStep == completeSaleTransaction \/ \E text \in ScanTexts : handleManualScan(text)

returnStep == \E text \in ScanTexts : (handleScanInput(text) /\ scanMode = "RETURN")

\* Outside loadData, which replaces the collection as a whole, an item keeps
\* its place counted from the end of the inventory and its code.
itemsKeepTheirPlace ==
    ~loadStep => /\ created >= 0
                 /\ \A i \in DOMAIN sarees : sarees'[i + created].code = sarees[i].code

importedStatus(file, row) ==
    IF file.hasStatus /\ includes(trim(toLowerCase(row.status)), SoldText)
    THEN trim(toLowerCase(row.status))
    ELSE AvailableText

SoldItemsHaveSales ==
    \A i \in DOMAIN sarees :
        sarees[i].status = SoldText => salesOf(sales, sarees[i].code) > 0

\* The number a text of digits writes; 0 for a text that writes no number.
customValue(text) ==
    IF \E n \in 0..999 : String(n) = text
    THEN CHOOSE n \in 0..999 : String(n) = text
    ELSE 0

\* The price of the tier selected on a cart line.
tierPrice(cartItem) ==
    CASE cartItem.selection = "MRP" -> cartItem.saree.mrp
      [] cartItem.selection = "ASP60" -> cartItem.saree.asp60
      [] cartItem.selection = "CUSTOM" -> customValue(cartItem.customPrice)

\* C19: a checkout creates one Sale per cart line, in the cart's order, whose
\* salePrice is the price of the tier selected on that line (list price for
\* MRP, alternate price for ASP60, the value of the custom text for CUSTOM,
\* 0 when that text writes no number), and all of them carry the payment
\* method selected at that moment and one and the same saleDate.
CheckoutPricesEachLine ==
    [][completeSaleTransaction /\ cart # <<>> =>
        /\ Len(sales') = Len(sales) + Len(cart)
        /\ \A i \in DOMAIN cart :
              /\ sales'[i].sareeCode = cart[i].saree.code
              /\ sales'[i].salePrice = tierPrice(cart[i])
              /\ sales'[i].paymentMethod = paymentMethod
              /\ sales'[i].saleDate = clock
        /\ \A i, j \in DOMAIN cart : sales'[i].saleDate = sales'[j].saleDate]_vars

\* One checkout sold A at its list price of 500 and B at a custom price of
\* 450, both for Cash and at the same time.
CheckoutSoldAtTwoTiers ==
    \E i, j \in DOMAIN sales :
        /\ sales[i].sareeCode = <<"A">> /\ sales[i].salePrice = 500
        /\ sales[j].sareeCode = <<"B">> /\ sales[j].salePrice = 450
        /\ sales[i].paymentMethod = "Cash" /\ sales[j].paymentMethod = "Cash"
        /\ sales[i].saleDate = MaxClock /\ sales[j].saleDate = MaxClock

-----------------------------------------------------------------------------
\* Bulk import.

\* The rows of a file that carry a code, and the first row carrying a code.
codedRows(file) == {r \in DOMAIN file.rows : file.rows[r].code # <<>>}

firstRow(file, code) ==
    CHOOSE r \in codedRows(file) :
        /\ upperCased(file.rows[r].code) = code
        /\ \A q \in codedRows(file) : upperCased(file.rows[q].code) = code => r <= q

\* The rows that repeat a code of the inventory or of an earlier row.
duplicateRows(file, stock) ==
    {r \in codedRows(file) :
        \/ upperCased(file.rows[r].code) \in codesOf(stock)
        \/ \E q \in codedRows(file) :
              q < r /\ upperCased(file.rows[q].code) = upperCased(file.rows[r].code)}

\* C12: when an import completes on a file with a code column, no item is
\* added for a row whose code is in the inventory or was accepted earlier in
\* the batch, every other coded row adds one item, duplicateCount is the
\* number of duplicate rows and addedCount the number of items added.
ImportSkipsDuplicates ==
    [][readerOnload /\ reader.file.hasCode =>
        /\ created = Cardinality(codedRows(reader.file))
                        - Cardinality(duplicateRows(reader.file, sarees))
        /\ \A n \in 1..created : sarees'[n].code \notin codesOf(sarees)
        /\ \A m, n \in 1..created : m # n => sarees'[m].code # sarees'[n].code
        /\ notification'.addedCount = created
        /\ notification'.duplicateCount
              = Cardinality(duplicateRows(reader.file, sarees))]_vars

\* C13: the rows an import accepts enter the inventory in the one step that
\* completes it, as a block in front of the items that were there, which keep
\* their contents and order; the block is as long as the import reports and
\* its items stand in the order of their rows. No other step of a session
\* whose load has finished adds more than one item.
ImportCommitsOneBlock ==
    [][ /\ readerOnload =>
            /\ created >= 0
            /\ SubSeq(sarees', created + 1, Len(sarees')) = sarees
            /\ created = IF notification'.message = "Imported"
                         THEN notification'.addedCount ELSE 0
            /\ \A n \in 1..created :
                  \E r \in codedRows(reader.file) :
                      upperCased(reader.file.rows[r].code) = sarees'[n].code
            /\ \A m, n \in 1..created :
                  m < n => firstRow(reader.file, sarees'[m].code)
                             < firstRow(reader.file, sarees'[n].code)
        /\ ~readerOnload /\ ~loadStep => created <= 1
      ]_vars

\* C13's case: an import of the rows A, B has skipped A, which was in stock,
\* and put B in front of it.
ImportedBlockInFront ==
    /\ notification.message = "Imported"
    /\ notification.addedCount = 1
    /\ notification.duplicateCount = 1
    /\ Len(sarees) = 2
    /\ sarees[1].code = <<"B">>
    /\ sarees[2].code = <<"A">>

\* No header cell is a name of the product code column.
lacksCodeColumn(headers) ==
    \A i \in DOMAIN headers :
        LET h == trim(toLowerCase(headers[i])) IN
        /\ ~includes(h, toLowerCase(HeaderProductCode))
        /\ h \notin {<<"p", "r", "o", "d", "u", "c", "t", " ", "c", "o", "d", "e">>,
                     <<"p", "r", "o", "d", "u", "c", "t", "c", "o", "d", "e">>,
                     <<"c", "o", "d", "e">>}

\* C14: an import of a file whose header has no product code column ends
\* with the missing-column error and changes neither the inventory, the
\* sales, the cart nor the store.
ImportWithoutCodeColumnFails ==
    [][readerOnload /\ lacksCodeColumn(reader.file.headers) =>
        /\ notification' = Notify("MissingProductCodeColumn", "error")
        /\ UNCHANGED <<sarees, sales, cart, idb>>]_vars

\* C14's case: the import of such a file has failed on a stocked inventory.
ImportWithoutCodeColumnFailed ==
    /\ notification.message = "MissingProductCodeColumn"
    /\ sarees # <<>>

\* C15: an item an import creates is sold exactly when the file has a status
\* column and the row's status text contains "sold" in any letter case, and
\* available otherwise.
ImportedStatusIsSoldOrAvailable ==
    [][readerOnload =>
        \A n \in 1..created :
            LET row == reader.file.rows[firstRow(reader.file, sarees'[n].code)] IN
            sarees'[n].status =
                IF reader.file.hasStatus /\ includes(toLowerCase(row.status), SoldText)
                THEN SoldText ELSE AvailableText]_vars

-----------------------------------------------------------------------------
\* The point of sale.

\* The cart after the step is the cart before it with one line appended, one
\* line removed, the lines' selections changed, or all lines removed.
cartStepFromLatest ==
    \/ cart' = <<>>
    \/ Len(cart') = Len(cart) + 1 /\ SubSeq(cart', 1, Len(cart)) = cart
    \/ \E index \in DOMAIN cart : cart' = splice(cart, index)
    \/ /\ Len(cart') = Len(cart)
       /\ \A i \in DOMAIN cart : cart'[i].saree = cart[i].saree

decodeStep == \E decodedText \in ScanTexts : onDecode(decodedText)

\* C11: every step that changes the cart computes the new cart from the cart
\* the previous step left, and a scanner decode changes the inventory and the
\* sales log only by what a return does to the collections the previous
\* step left: at most one item changes, and the sales log loses the Sales
\* of one code at most.
MutationsBuildOnLatestState ==
    [][ /\ cart' # cart => cartStepFromLatest
        /\ decodeStep =>
              /\ Len(sarees') = Len(sarees)
              /\ Cardinality({i \in DOMAIN sarees : sarees'[i] # sarees[i]}) <= 1
              /\ \/ sales' = sales
                 \/ \E i \in DOMAIN sarees : sales' = filterSales(sales, sarees[i].code)
      ]_vars

\* A step in which addToCart is called with the code of a text: the scan
\* form in SELL mode, or a decode of a scanner started in SELL mode.
addToCartCalled(text) ==
    \/ scanMode = "SELL" /\ handleScanInput(text)
    \/ camera.scanMode = "SELL" /\ onDecode(text)

\* C16: addToCart of a code that is not in the inventory, is the code of a
\* sold item or is in the cart ends with an error and leaves the cart as it
\* is; of any other code it appends one line for the item of that code, with
\* the MRP selection, behind the lines of the cart, which stay as they are.
AddToCartContract ==
    [][ \A text \in ScanTexts :
          addToCartCalled(text) =>
            LET code == scannedCode(text)
                found == {i \in DOMAIN sarees : sarees[i].code = code}
            IN  IF \/ found = {}
                   \/ \E i \in found : sarees[i].status = SoldText
                   \/ code \in cartCodes
                THEN /\ cart' = cart
                     /\ notification'.type = "error"
                ELSE /\ Len(cart') = Len(cart) + 1
                     /\ SubSeq(cart', 1, Len(cart)) = cart
                     /\ cart'[Len(cart')].saree.code = code
                     /\ cart'[Len(cart')].selection = "MRP"
      ]_vars

\* C17: in every reachable state the cart holds as many codes as lines: no
\* code is on two lines.
CartHoldsEachCodeOnce == Cardinality(cartCodes) = Len(cart)

\* C17's case: a decode has put a second line into the cart.
DecodeAddedSecondLine ==
    /\ camera.state = "stopping"
    /\ notification.message = "AddedToCart"
    /\ Len(cart) = 2

\* C18: a step that changes the active tab or the scan mode leaves the cart
\* empty and no scanner running.
TabOrModeChangeClearsCart ==
    [][activeTab' # activeTab \/ scanMode' # scanMode =>
        /\ cart' = <<>>
        /\ camera'.state # "running"]_vars

-----------------------------------------------------------------------------
\* Factory reset.

\* A step that leaves the inventory or the sales log empty when it was not.
collectionEmptied ==
    \/ sarees # <<>> /\ sarees' = <<>>
    \/ sales # <<>> /\ sales' = <<>>

\* C20: the inventory or the sales log is emptied only by a submit in the
\* open reset dialog with the configured PIN in the field; a submit with
\* any other PIN shows Incorrect PIN and leaves the inventory, the sales,
\* the cart, the store and the legacy keys as they are.
FactoryResetOnlyWithPin ==
    [][ /\ collectionEmptied =>
              submitReset /\ showResetModal /\ resetPassword = RESET_PASSWORD
        /\ submitReset /\ resetPassword # RESET_PASSWORD =>
              /\ passwordError' = <<"Incorrect PIN">>
              /\ UNCHANGED <<sarees, sales, cart, idb, localStorage>>
      ]_vars

\* C21: once a factory reset with the configured PIN has run (its
\* "Factory reset complete" toast is the latest message), the inventory, the
\* sales and the cart are empty, the store holds an empty array under both
\* keys and both legacy keys are gone.
FactoryResetLeavesNothing ==
    notification = Notify("FactoryResetComplete", "success") =>
        /\ sarees = <<>>
        /\ sales = <<>>
        /\ cart = <<>>
        /\ idb = EmptyStore
        /\ localStorage = NoLegacy

\* C22: once the startup load has finished, every step that changes the
\* inventory or the sales in memory also puts the complete new inventory
\* under 'saree_inventory' and the complete new sales under 'saree_sales'.
WriteThrough ==
    [][ isDBLoaded' /\ (sarees' # sarees \/ sales' # sales) =>
            idb' = [saree_inventory |-> Stored(sarees'),
                    saree_sales |-> Stored(sales')]
      ]_vars

\* A loaded session in which a checkout or an import of a sold item has been
\* written through: the store holds the current sales and inventory, and
\* they are not the ones it held at startup.
ChangeWrittenThrough ==
    /\ isDBLoaded
    /\ sales # <<>>
    /\ sarees # <<>>
    /\ idb = [saree_inventory |-> Stored(sarees), saree_sales |-> Stored(sales)]
    /\ idb.saree_sales # idbAtStartup.saree_sales
    /\ idb.saree_inventory # idbAtStartup.saree_inventory

\* C23: in a loaded session of the current variant, whatever the store
\* holds and whether the startup reads failed or not, the add form with a
\* new code adds the item, a checkout of a non-empty cart records its sales
\* and empties the cart, and a return of a sold code makes it available; and
\* while the store can still reject a write, each of the three can take that
\* effect in a step whose write is rejected.
StorageFailureDoesNotBlock ==
    (variant = "current" /\ isDBLoaded) =>
        \A failing \in {f \in BOOLEAN : f => faultsLeft > 0} :
            /\ \A text \in FormCodes :
                  (/\ ~showPaymentModal
                   /\ ~someCode(sarees, toUpperCase(text))
                   /\ Len(sarees) < MaxItems) =>
                      ENABLED (/\ handleAddSaree(text)
                               /\ failing => faultsLeft' < faultsLeft
                               /\ someCode(sarees', toUpperCase(text)))
            /\ (showPaymentModal /\ cart # <<>> /\ Len(sales) + Len(cart) <= MaxSales) =>
                  ENABLED (/\ completeSaleTransaction
                           /\ failing => faultsLeft' < faultsLeft
                           /\ Len(sales') = Len(sales) + Len(cart)
                           /\ cart' = <<>>)
            /\ \A text \in ScanTexts :
                  (/\ ~showPaymentModal
                   /\ scanMode = "RETURN"
                   /\ \E i \in DOMAIN sarees :
                         /\ i = findIndex(sarees, toUpperCase(trim(text)))
                         /\ sarees[i].status # AvailableText) =>
                      ENABLED (/\ handleScanInput(text)
                               /\ failing => faultsLeft' < faultsLeft
                               /\ \E i \in DOMAIN sarees' :
                                     /\ i = findIndex(sarees, toUpperCase(trim(text)))
                                     /\ sarees'[i].status = AvailableText)

\* A loaded session in which a put was rejected: the inventory in memory
\* holds an item the store does not, and a later scan has put that item in
\* the cart.
UnsavedItemInCart ==
    /\ isDBLoaded
    /\ faultsLeft < MaxFaults
    /\ \E i \in DOMAIN sarees :
          /\ ~someCode(idb.saree_inventory.val, sarees[i].code)
          /\ inCart(cart, sarees[i].code)

\* C24: the scanner is not running after a tab change, a mode button or a
\* handled decode, and a scanner that was requested opens only when no
\* mode or tab change came between the request and the opening: the mode
\* on screen is still the mode of the request and the scan tab is shown.
CameraExclusivity ==
    [][ /\ (\E newTab \in Tabs : handleTabChange(newTab)) => camera'.state # "running"
        /\ (\E mode \in {"SELL", "RETURN"} : setScanMode(mode)) => camera'.state # "running"
        /\ (\E decodedText \in ScanTexts : onDecode(decodedText)) => camera'.state # "running"
        /\ (camera.state = "starting" /\ camera'.state = "running") =>
              (camera.scanMode = scanMode /\ activeTab = "scan")
      ]_vars

\* C25: for each key the store held a value for when the session started,
\* an empty array included, the step that finishes startup leaves that
\* value in memory and in the store, whatever localStorage holds under the
\* key.
StoreIsAuthoritative ==
    [][ startupFinishes
        => \A key \in Keys :
              idbAtStartup[key].has
              => /\ memory(key)' = idbAtStartup[key].val
                 /\ idb'[key] = idbAtStartup[key]
      ]_vars

\* A finished startup of a session whose store held a value for a key that
\* localStorage still holds another collection for: the stored one is in
\* memory and in the store.
StartedFromStoreDespiteLegacy ==
    /\ isDBLoaded
    /\ \E key \in Keys :
          /\ idbAtStartup[key].has
          /\ localStorage[key].kind = "json"
          /\ localStorage[key].val # idbAtStartup[key].val
          /\ memory(key) = idbAtStartup[key].val
          /\ idb[key] = idbAtStartup[key]

\* The collection an export has just written out.
exported ==
    IF download'.filename = "Inventory_Master" THEN sarees ELSE sales

\* C26: when an export has written a table, splitting it into rows and
\* parsing each data row with parseCSVRow gives, for every record, one cell
\* per field, equal to the text of that field's value.
ExportRoundTrip ==
    [][ download' # download =>
          \A rows \in {split(download'.content, NewLine)},
             separator \in {delimiterOf(download'.content)} :
                /\ Len(rows) = Len(exported) + 1
                /\ \A i \in DOMAIN exported :
                      \A parsed \in {parseCSVRow(rows[i + 1], separator)} :
                         /\ Len(parsed) = Len(exported[i])
                         /\ \A j \in DOMAIN exported[i] :
                               parsed[j] = StringOf(exported[i][j].val)
      ]_vars

\* The value obj holds under the property a header names, undefined when it
\* has no such property.
valueOf(obj, header) ==
    IF \E j \in DOMAIN obj : <<obj[j].key>> = header
    THEN (CHOOSE entry \in {obj[j] : j \in DOMAIN obj} : <<entry.key>> = header).val
    ELSE Text(<<"undefined">>)

\* C27: an export writes a header row of the field names and then one row
\* per record of the collection, in the collection's order, whose cells are
\* that record's values of the header's fields, one per header field and in
\* the header's order.
ExportTableMatchesHeader ==
    [][ download' # download =>
          \A rows \in {split(download'.content, NewLine)} :
             \A headers \in {split(rows[1], ",")} :
                /\ Len(rows) = Len(exported) + 1
                /\ \A i \in DOMAIN exported :
                      /\ Len(exported[i]) = Len(headers)
                      /\ \A row \in {[j \in DOMAIN headers |->
                                       <<Quote>>
                                          \o doubleQuotes(StringOf(valueOf(exported[i], headers[j])))
                                          \o <<Quote>>]} :
                            rows[i + 1] = join(row, <<",">>)
      ]_vars

\* C28: an item created from a text, by the add form or from a code cell of
\* an import file, is stored under the code that handleScanInput looks up
\* when the same text is typed or scanned.
CodeNormalizationConsistent ==
    [][ /\ \A text \in EntryTexts :
              (handleAddSaree(text) /\ created = 1) => sarees'[1].code = scannedCode(text)
        /\ (readerOnload /\ created > 0) =>
              \A i \in 1..created :
                 \E r \in DOMAIN reader.file.rows :
                    sarees'[i].code = scannedCode(reader.file.rows[r].code)
      ]_vars

\* A call of processReturn: the scan form in RETURN mode, or a decode whose
\* callback was made in RETURN mode.
returnCalled(text) ==
    \/ handleScanInput(text) /\ scanMode = "RETURN"
    \/ onDecode(text) /\ camera.state = "running" /\ camera.scanMode = "RETURN"

NoDoubleSell ==
    \A i, j \in DOMAIN sales : sales[i].sareeCode = sales[j].sareeCode => i = j

\* C31: every line of the cart is for a code that an item of the inventory
\* has, and the item of that code is available.
CartLinesAreAvailableItems ==
    \A i \in DOMAIN cart :
        /\ findIndex(sarees, cart[i].saree.code) # 0
        /\ sarees[findIndex(sarees, cart[i].saree.code)].status = AvailableText

\* C32: in a session whose store has rejected no request, once the startup
\* load has finished and no factory reset is waiting for a put, the store
\* holds the in-memory inventory under 'saree_inventory' and the in-memory
\* sales under 'saree_sales'.
PersistenceConvergence ==
    (isDBLoaded /\ resetPc = "idle" /\ faultsLeft = 0 /\ variant = "current")
        => idb = [saree_inventory |-> Stored(sarees), saree_sales |-> Stored(sales)]

\* C33: an item that is in the in-memory inventory, put there by the add
\* form or by an import, is still in it after every step that is not the
\* submit of a factory reset with the configured PIN.
AddedItemsStay ==
    [][ (\E i \in DOMAIN sarees : ~someCode(sarees', sarees[i].code))
            => showResetModal /\ resetPassword = RESET_PASSWORD /\ sarees' = <<>>
      ]_vars

-----------------------------------------------------------------------------
\* Restarts: sessions of the current variant one after the other over the
\* same store and the same legacy keys, with the startup load and the reset
\* dialog; no handler creates an item or a sale, so whatever a session loads
\* existed before.

\* The page is closed and opened again while no factory reset is waiting for
\* a put: the component mounts with its initial state and calls loadData();
\* the store and the legacy keys are what the last session left.
restart ==
    /\ resetPc = "idle"
    /\ sarees' = <<>>
    /\ sales' = <<>>
    /\ cart' = <<>>
    /\ notification' = NoNotification
    /\ isDBLoaded' = FALSE
    /\ scanMode' = "SELL"
    /\ showPaymentModal' = FALSE
    /\ paymentMethod' = "UPI"
    /\ loadPc' = "getInventory"
    /\ savedSarees' = Undefined
    /\ savedSales' = Undefined
    /\ reader' = NoReader
    /\ idbAtStartup' = idb
    /\ activeTab' = "dashboard"
    /\ download' = NoDownload
    /\ isCameraActive' = FALSE
    /\ camera' = Idle(FALSE, "off")
    /\ showResetModal' = FALSE
    /\ devClickCount' = 0
    /\ resetPassword' = <<>>
    /\ passwordError' = <<>>
    /\ resetConfirmed' = IF resetConfirmed = "no" THEN "no" ELSE "earlierSession"
    /\ UNCHANGED <<variant, idb, localStorage, faultsLeft, clock, resetPc, worker>>

NextRestart ==
    \/ getInventorySettles
    \/ getSalesSettles
    \/ putInventorySettles
    \/ putSalesSettles
    \/ handleHiddenResetTrigger
    \/ setResetPassword(RESET_PASSWORD)
    \/ submitReset
    \/ resetInventorySettles
    \/ resetSalesSettles
    \/ restart

SpecRestart == InitTill /\ [][NextRestart]_vars

\* C34: a session started after a factory reset was confirmed with the PIN
\* holds no item and no sale, whatever its startup load found in the store
\* and in the legacy keys.
ResetIsDurable ==
    resetConfirmed = "earlierSession" => sarees = <<>> /\ sales = <<>>

-----------------------------------------------------------------------------
\* The till with a store that answers: every request of loadData is answered
\* in the end, with a value or with an error, so a step of loadData that can
\* be taken is taken.
SpecTillFair == InitTill /\ [][NextTill]_vars /\ WF_vars(loadStep)

\* C35: the loaded flag becomes true and stays true, whether the load
\* found collections, found nothing, migrated the legacy keys or failed.
StartupAlwaysCompletes == <>[]isDBLoaded

\* The load failed on a store that held an inventory, and the session is
\* loaded with an empty one.
StartupCompletedAfterFailedLoad ==
    /\ isDBLoaded
    /\ loadPc = "done"
    /\ idbAtStartup.saree_inventory.has
    /\ idbAtStartup.saree_inventory.val # <<>>
    /\ sarees = <<>>

-----------------------------------------------------------------------------
\* The total on the payment button and the sales of the checkout.

RECURSIVE sumOfSalePrices(_)
\* The salePrice values of a list of Sales, added from the first to the last.
sumOfSalePrices(records) ==
    IF records = <<>> THEN 0
    ELSE sumOfSalePrices(SubSeq(records, 1, Len(records) - 1))
            + records[Len(records)].salePrice

-----------------------------------------------------------------------------
\* The service worker: install, activate and fetch events over the caches of
\* the origin. A cache is the set of URLs it holds a response for.

\* The URLs the pages of the application ask for with GET: the core files, an
\* icon and a font over http(s), and a URL of another scheme.
Urls ==
    ASSETS_TO_CACHE \cup
    { Url("https", "./icon.png"), Url("http", "//fonts.example/font.woff"),
      Url("chrome-extension", "//abc/inject.js") }

\* The URLs a cache of the origin holds a response for: caches.match looks
\* into every cache.
matched(caches) == UNION {caches[name] : name \in DOMAIN caches}

\* The install event, at the registration and again on a later page when the
\* installation failed: caches.open(CACHE_NAME) creates the cache if there is
\* none, and cache.addAll stores all the core files or, when one of them
\* cannot be fetched, none and fails the installation.
install ==
    /\ worker.state \in {"none", "redundant"}
    /\ \E ok \in BOOLEAN :
          worker' =
            [worker EXCEPT
               !.state = IF ok THEN "installed" ELSE "redundant",
               !.caches =
                  [name \in DOMAIN worker.caches \cup {CACHE_NAME} |->
                      IF name = CACHE_NAME
                      THEN (IF name \in DOMAIN worker.caches
                            THEN worker.caches[name] ELSE {})
                           \cup (IF ok THEN ASSETS_TO_CACHE ELSE {})
                      ELSE worker.caches[name]]]
    /\ UNCHANGED <<variant, idbAtStartup, localStorage, download, resetConfirmed, desk,
                   lens, till, loading, view, sarees, sales, cart, notification, idb,
                   faultsLeft, reader>>

\* The activate event: every cache whose name is not CACHE_NAME is deleted.
activate ==
    /\ worker.state = "installed"
    /\ worker' = [worker EXCEPT
                    !.state = "activated",
                    !.caches = [name \in DOMAIN worker.caches \cap {CACHE_NAME} |->
                                   worker.caches[name]]]
    /\ UNCHANGED <<variant, idbAtStartup, localStorage, download, resetConfirmed, desk,
                   lens, till, loading, view, sarees, sales, cart, notification, idb,
                   faultsLeft, reader>>

\* A fetch event whose handler asks the network and stores nothing.
fetchEvent_noPut(url) ==
    /\ worker.state = "activated"
    /\ IF url \in matched(worker.caches)
       THEN worker' = [worker EXCEPT !.answered = [from |-> "cache", url |-> url]]
       ELSE \E ok \in BOOLEAN :
               worker' =
                 [worker EXCEPT
                    !.network = @ \cup {url},
                    !.answered = [from |-> IF ok THEN "network" ELSE "error",
                                  url |-> url]]
    /\ UNCHANGED <<variant, idbAtStartup, localStorage, download, resetConfirmed, desk,
                   lens, till, loading, view, sarees, sales, cart, notification, idb,
                   faultsLeft, reader>>

\* The fetch event of a GET request for url, sent to the activated worker:
\* a response that caches.match finds is the answer; otherwise fetch() asks
\* the network, and when it answers the response is the answer and, if the
\* URL starts with 'http', a copy is put into the cache CACHE_NAME; when
\* fetch() rejects, the answer is a network error.
fetchEvent(url) ==
    /\ worker.state = "activated"
    /\ IF url \in matched(worker.caches)
       THEN worker' = [worker EXCEPT !.answered = [from |-> "cache", url |-> url]]
       ELSE \E ok \in BOOLEAN :
               worker' =
                 [worker EXCEPT
                    !.network = @ \cup {url},
                    !.answered = [from |-> IF ok THEN "network" ELSE "error",
                                  url |-> url],
                    !.caches =
                       IF ok /\ url.scheme \in {"http", "https"}
                       THEN [name \in DOMAIN @ \cup {CACHE_NAME} |->
                               IF name = CACHE_NAME
                               THEN (IF name \in DOMAIN @ THEN @[name] ELSE {}) \cup {url}
                               ELSE @[name]]
                       ELSE @]
    /\ UNCHANGED <<variant, idbAtStartup, localStorage, download, resetConfirmed, desk,
                   lens, till, loading, view, sarees, sales, cart, notification, idb,
                   faultsLeft, reader>>

NextWorker ==
    \/ install
    \/ activate
    \/ \E url \in Urls : fetchEvent(url)

SpecWorker == InitCheckout /\ [][NextWorker]_vars

\* C37: once the installation has succeeded the cache CACHE_NAME holds every
\* core file; a fetch event for a URL some cache holds, a core file in
\* particular, is answered from the cache and asks the network for nothing;
\* a fetch event for a URL no cache holds asks the network, and when the
\* network answers an http(s) URL the cache holds that URL afterwards.
OfflineAssetAvailability ==
    [][ /\ worker'.state \in {"installed", "activated"}
           => ASSETS_TO_CACHE \subseteq worker'.caches[CACHE_NAME]
        /\ \A url \in Urls :
              fetchEvent(url) =>
                 /\ worker'.answered.url = url
                 /\ (url \in ASSETS_TO_CACHE \/ url \in matched(worker.caches))
                    => /\ worker'.answered.from = "cache"
                       /\ worker'.network = worker.network
                 /\ url \notin matched(worker.caches)
                    => /\ url \in worker'.network
                       /\ worker'.answered.from \in {"network", "error"}
                       /\ (worker'.answered.from = "network"
                           /\ url.scheme \in {"http", "https"})
                          => url \in worker'.caches[CACHE_NAME]
      ]_vars

\* The scanner library was answered from the cache, and the icon, fetched
\* from the network before, is in the cache too.
LibraryFromCacheIconStored ==
    /\ worker.state = "activated"
    /\ worker.answered = [from |-> "cache", url |-> Url("https", "//unpkg.com/html5-qrcode")]
    /\ Url("https", "./icon.png") \in worker.network
    /\ Url("https", "./icon.png") \in worker.caches[CACHE_NAME]
    /\ Url("chrome-extension", "//abc/inject.js") \in worker.network

====
